---- MODULE Spec2Model ----
(***************************************************************************)
(* Model of the command-chain execution engine and the background process  *)
(* manager of Smart-CLI (src/terminal/enhanced_command_executor.py) and of *)
(* its interactive sessions (src/terminal/interactive_session_handler.py). *)
(*                                                                         *)
(* A Python string is a sequence of pieces; every piece is a one-character *)
(* string, or a literal of the source kept whole (a marker, a message).    *)
(* Concatenation is \o.  strip, split, endswith and `in` work on the       *)
(* pieces as the Python methods work on the characters.                    *)
(***************************************************************************)
EXTENDS Integers, Sequences, FiniteSets, TLC

VARIABLES
    command_chain,      \* argument of execute_command_chain
    env,                \* what the operating system does with a spawned command
    pc,                 \* position of the caller of execute_command_chain
    result,             \* the (success, output) tuple the call returned
    trace,              \* the calls _parse_and_execute made, in order of return
    command_history,    \* CommandChainExecutor.command_history
    last_exit_code,     \* CommandChainExecutor.last_exit_code
    process_counter,    \* ProcessManager.process_counter
    running_processes,  \* ProcessManager.running_processes
    os_procs,           \* the processes Popen created for the manager
    monitors,           \* the _monitor_process threads
    killer,             \* the caller of kill_process
    start_ret,          \* what the last start_background_process returned
    sessions,           \* InteractiveSessionManager.sessions: id -> object
    session_counter,    \* InteractiveSessionManager.session_counter
    session_objects,    \* the InteractiveSession objects created so far
    session_procs,      \* the processes Popen created for the sessions
    session_threads,    \* the threads _start_threads started
    caller,             \* the caller of the Session Manager's interface
    ticks,              \* how often the clock has moved
    issued              \* the identifiers create_session returned, in order

\* the fields of the Session Manager, its sessions and their environment
svars == <<sessions, session_counter, session_objects, session_procs,
           session_threads, caller, ticks, issued>>

\* the fields of the chain executor, the Process Manager and their environment
evars == <<command_chain, env, pc, result, trace, command_history,
           last_exit_code, process_counter, running_processes, os_procs,
           monitors, killer, start_ret>>

vars == <<evars, svars>>

(***************************************************************************)
(* Bounds                                                                  *)
(***************************************************************************)
MaxCmds == 3        \* sub-commands in an input expression
MaxProcs == 2       \* processes started through the manager's own interface

(***************************************************************************)
(* Python string methods                                                   *)
(***************************************************************************)
Whitespace == {" ", "\n", "\t"}

RECURSIVE LStrip(_)
LStrip(s) ==
    IF s = <<>> THEN <<>>
    ELSE IF Head(s) \in Whitespace THEN LStrip(Tail(s)) ELSE s

RECURSIVE RStrip(_)
RStrip(s) ==
    IF s = <<>> THEN <<>>
    ELSE IF s[Len(s)] \in Whitespace THEN RStrip(SubSeq(s, 1, Len(s) - 1)) ELSE s

\* str.strip()
Strip(s) == RStrip(LStrip(s))

\* str.endswith(suffix)
EndsWith(s, suffix) ==
    /\ Len(s) >= Len(suffix)
    /\ SubSeq(s, Len(s) - Len(suffix) + 1, Len(s)) = suffix

\* the positions at which sub occurs in s
Occurrences(s, sub) ==
    { i \in 1..(Len(s) - Len(sub) + 1) : SubSeq(s, i, i + Len(sub) - 1) = sub }

\* `sub in s`
Contains(s, sub) == Occurrences(s, sub) # {}

Min(S) == CHOOSE x \in S : \A y \in S : x <= y

\* str.split(sep): cut at the non-overlapping occurrences, scanning from the left
RECURSIVE Split(_, _)
Split(s, sep) ==
    IF ~Contains(s, sep) THEN <<s>>
    ELSE LET i == Min(Occurrences(s, sep))
         IN  <<SubSeq(s, 1, i - 1)>> \o Split(SubSeq(s, i + Len(sep), Len(s)), sep)

\* [cmd.strip() for cmd in chain.split(sep)]
StrippedParts(s, sep) ==
    LET parts == Split(s, sep) IN [i \in 1..Len(parts) |-> Strip(parts[i])]

\* "\n".join(results)
RECURSIVE Join(_)
Join(results) ==
    IF results = <<>> THEN <<>>
    ELSE IF Len(results) = 1 THEN results[1]
    ELSE results[1] \o <<"\n">> \o Join(Tail(results))

\* f"[{cmd}] -> {output}"
Label(cmd, output) == <<"[">> \o cmd \o <<"]", " ", "-", ">", " ">> \o output

\* Python's `a or b` on strings
OrElse(a, b) == IF a # <<>> THEN a ELSE b

(***************************************************************************)
(* The operating system: what a spawned command does.  The letters of a    *)
(* command decide its exit status, env decides what it prints and whether  *)
(* it can be created and whether it ever exits.                            *)
(***************************************************************************)
Absent == <<"<absent>">>
ErrText == "<str(e)>"

Envs ==
    [out : {"none", "blank", "text"}, err : {"text"}, fault : {"none"}]
    \cup [out : {"text"}, err : {"none"}, fault : {"none"}]
    \cup [out : {"text"}, err : {"text"},
          fault : {"hang", "spawn_error", "undecodable"}]

Letters(command) == SelectSeq(command, LAMBDA c : c \in {"t", "f"})

ExitCode(command) == IF Contains(command, <<"f">>) THEN 1 ELSE 0

Stdout(command, e) ==
    CASE e.out = "none"  -> <<>>
      [] e.out = "blank" -> <<"\n">>
      [] OTHER           -> <<" ">> \o Letters(command) \o <<"\n">>

Stderr(command, e) ==
    CASE e.err = "none" -> <<>>
      [] OTHER          -> <<"E">> \o Letters(command) \o <<"\n">>

\* a run() that raises on the timeout and leaves the child alone
subprocess_run_leaving_child(command, e) ==
    CASE e.fault = "spawn_error" ->
            [raised |-> "Exception", returncode |-> 0, stdout |-> <<>>,
             stderr |-> <<>>, proc |-> "none"]
      [] e.fault = "hang" ->
            [raised |-> "TimeoutExpired", returncode |-> 0, stdout |-> <<>>,
             stderr |-> <<>>, proc |-> "running"]
      [] e.fault = "undecodable" ->
            [raised |-> "Exception", returncode |-> 0, stdout |-> <<>>,
             stderr |-> <<>>, proc |-> "exited"]
      [] OTHER ->
            [raised |-> "none", returncode |-> ExitCode(command),
             stdout |-> Stdout(command, e), stderr |-> Stderr(command, e),
             proc |-> "exited"]

\* subprocess.run(command, shell=True, capture_output=True, text=True, timeout=30)
subprocess_run(command, e) ==
    CASE e.fault = "spawn_error" ->
            [raised |-> "Exception", returncode |-> 0, stdout |-> <<>>,
             stderr |-> <<>>, proc |-> "none"]
      [] e.fault = "hang" ->
            \* run() kills the child and waits for it before it raises
            [raised |-> "TimeoutExpired", returncode |-> 0, stdout |-> <<>>,
             stderr |-> <<>>, proc |-> "killed"]
      [] e.fault = "undecodable" ->
            \* text=True: decoding the captured bytes raises after the exit
            [raised |-> "Exception", returncode |-> 0, stdout |-> <<>>,
             stderr |-> <<>>, proc |-> "exited"]
      [] OTHER ->
            [raised |-> "none", returncode |-> ExitCode(command),
             stdout |-> Stdout(command, e), stderr |-> Stderr(command, e),
             proc |-> "exited"]

(***************************************************************************)
(* ProcessManager.start_background_process                                 *)
(* A manager state m is [counter, reg, procs, mons]: process_counter,      *)
(* running_processes, the processes created so far and their monitors.     *)
(***************************************************************************)
NoId == <<>>        \* process_id None or "": `not process_id` holds

BgId(n) == <<"bg_", ToString(n)>>       \* f"bg_{self.process_counter}"

NewRecord(h, command) ==
    [process |-> h, command |-> command, status |-> "running",
     return_code |-> Absent, stdout |-> Absent, stderr |-> Absent,
     error |-> Absent, end_time |-> FALSE]

\* a store that keeps only the newest entry
Put_keeping_newest(reg, id, rec) ==
    [k \in {id} |-> rec]

\* self.running_processes[process_id] = {...}
Put(reg, id, rec) ==
    [k \in DOMAIN reg \cup {id} |-> IF k = id THEN rec ELSE reg[k]]

start_background_process(command, process_id, m, e) ==
    LET counter1 == IF process_id = NoId THEN m.counter + 1 ELSE m.counter
        id == IF process_id = NoId THEN BgId(counter1) ELSE process_id
        h == Len(m.procs) + 1
    IN  IF e.fault = "spawn_error"
        THEN [pm |-> [m EXCEPT !.counter = counter1],
              ret |-> <<"Error starting background process: ", ErrText>>]
        ELSE [pm |-> [counter |-> counter1,
                      reg |-> Put(m.reg, id, NewRecord(h, command)),
                      procs |-> Append(m.procs,
                                       [command |-> command, env |-> e,
                                        state |-> "running", returncode |-> 0,
                                        signal |-> "none"]),
                      mons |-> Append(m.mons,
                                      [process_id |-> id, process |-> h,
                                       pc |-> "communicate"])],
              ret |-> id]

\* ProcessManager.get_process_status
get_process_status(reg, process_id) ==
    IF process_id \in DOMAIN reg THEN reg[process_id]
    ELSE [status |-> "not_found"]

(***************************************************************************)
(* CommandChainExecutor.  An execution state st carries the executor's and *)
(* the manager's fields through the calls; success and output hold the     *)
(* tuple the last call returned, blocked says that the call never returns. *)
(***************************************************************************)
Return(st, success, output, stages, proc) ==
    [st EXCEPT !.success = success, !.output = output,
               !.stages = stages, !.proc = proc]

\* _execute_single_command that tests the untrimmed stdout
execute_single_command_raw_test(command, st, e) ==
    LET r == subprocess_run(command, e)
        output == IF r.stdout # <<>> THEN Strip(r.stdout) ELSE Strip(r.stderr)
    IN  CASE r.raised = "TimeoutExpired" ->
                Return(st, FALSE, <<"Command timed out after 30 seconds">>,
                       <<>>, r.proc)
          [] r.raised = "Exception" ->
                Return(st, FALSE, <<"Command execution error: ", ErrText>>,
                       <<>>, r.proc)
          [] OTHER ->
                Return([st EXCEPT !.last_exit_code = r.returncode],
                       r.returncode = 0, output, <<>>, r.proc)

\* _execute_single_command that prefers stderr
execute_single_command_stderr_first(command, st, e) ==
    LET r == subprocess_run(command, e)
        output == OrElse(Strip(r.stderr), Strip(r.stdout))
    IN  CASE r.raised = "TimeoutExpired" ->
                Return(st, FALSE, <<"Command timed out after 30 seconds">>,
                       <<>>, r.proc)
          [] r.raised = "Exception" ->
                Return(st, FALSE, <<"Command execution error: ", ErrText>>,
                       <<>>, r.proc)
          [] OTHER ->
                Return([st EXCEPT !.last_exit_code = r.returncode],
                       r.returncode = 0, output, <<>>, r.proc)

execute_single_command(command, st, e) ==
    LET r == subprocess_run(command, e)
        output == OrElse(Strip(r.stdout), Strip(r.stderr))
    IN  CASE r.raised = "TimeoutExpired" ->
                Return(st, FALSE, <<"Command timed out after 30 seconds">>,
                       <<>>, r.proc)
          [] r.raised = "Exception" ->
                Return(st, FALSE, <<"Command execution error: ", ErrText>>,
                       <<>>, r.proc)
          [] OTHER ->
                Return([st EXCEPT !.last_exit_code = r.returncode],
                       r.returncode = 0, output, <<>>, r.proc)

\* _execute_pipe that looks at the last stage's exit code only
execute_pipe_last_stage_only(chain, st, e) ==
    LET commands == StrippedParts(chain, <<"|">>)
        last == commands[Len(commands)]
        stdout == Stdout(last, e)
        stderr == Stderr(last, e)
        success == ExitCode(last) = 0
        output == IF stdout # <<>> THEN Strip(stdout) ELSE Strip(stderr)
    IN  CASE e.fault = "spawn_error" ->
                Return(st, FALSE, <<"Pipe execution error: ", ErrText>>,
                       <<>>, "none")
          [] e.fault = "undecodable" ->
                Return(st, FALSE, <<"Pipe execution error: ", ErrText>>,
                       commands, "exited")
          [] e.fault = "hang" ->
                [st EXCEPT !.blocked = TRUE]
          [] OTHER ->
                Return(st, success, output, commands, "exited")

execute_pipe(chain, st, e) ==
    LET commands == StrippedParts(chain, <<"|">>)
        last == commands[Len(commands)]
        stdout == Stdout(last, e)
        stderr == Stderr(last, e)
        success == \A i \in 1..Len(commands) : ExitCode(commands[i]) = 0
        output == IF stdout # <<>> THEN Strip(stdout) ELSE Strip(stderr)
    IN  CASE e.fault = "spawn_error" ->
                \* the first Popen raises
                Return(st, FALSE, <<"Pipe execution error: ", ErrText>>,
                       <<>>, "none")
          [] e.fault = "undecodable" ->
                \* communicate() raises
                Return(st, FALSE, <<"Pipe execution error: ", ErrText>>,
                       commands, "exited")
          [] e.fault = "hang" ->
                \* communicate() on the last stage has no timeout
                [st EXCEPT !.blocked = TRUE]
          [] OTHER ->
                Return(st, success, output, commands, "exited")

execute_background(command, st, e) ==
    LET s == start_background_process(command, NoId, st.pm, e)
    IN  Return([st EXCEPT !.pm = s.pm], TRUE,
               <<"Started background process: ">> \o s.ret, <<>>, "none")

RECURSIVE parse_and_execute(_, _, _, _)
RECURSIVE sequential_loop(_, _, _, _, _, _)
RECURSIVE and_loop(_, _, _, _, _, _)
RECURSIVE or_loop(_, _, _, _, _, _)

\* _execute_sequential that gives up at the first failing sub-command
RECURSIVE sequential_loop_stopping(_, _, _, _, _, _)
sequential_loop_stopping(commands, i, results, st, e, depth) ==
    IF i > Len(commands)
    THEN Return(st, TRUE, Join(results), <<>>, "none")
    ELSE IF commands[i] = <<>>
    THEN sequential_loop_stopping(commands, i + 1, results, st, e, depth)
    ELSE LET s == parse_and_execute(commands[i], st, e, depth + 1)
             results1 == Append(results, Label(commands[i], s.output))
         IN  IF s.blocked THEN s
             ELSE IF ~s.success
             THEN Return(s, TRUE, Join(results1), <<>>, "none")
             ELSE sequential_loop_stopping(commands, i + 1, results1, s, e, depth)

\* _execute_conditional_and that runs on after a failure
RECURSIVE and_loop_running_on(_, _, _, _, _, _)
and_loop_running_on(commands, i, results, st, e, depth) ==
    IF i > Len(commands)
    THEN Return(st, st.success, Join(results), <<>>, "none")
    ELSE IF commands[i] = <<>>
    THEN and_loop_running_on(commands, i + 1, results, st, e, depth)
    ELSE LET s == parse_and_execute(commands[i], st, e, depth + 1)
         IN  IF s.blocked THEN s
             ELSE and_loop_running_on(commands, i + 1,
                                   Append(results, Label(commands[i], s.output)),
                                   s, e, depth)

\* _execute_conditional_or that tries every alternative
RECURSIVE or_loop_trying_all(_, _, _, _, _, _)
or_loop_trying_all(commands, i, results, st, e, depth) ==
    IF i > Len(commands)
    THEN IF st.success
         THEN Return(st, TRUE, Join(results) \o <<"\n", "(Chain succeeded)">>,
                     <<>>, "none")
         ELSE Return(st, FALSE, Join(results) \o <<"\n", "(All commands failed)">>,
                     <<>>, "none")
    ELSE IF commands[i] = <<>>
    THEN or_loop_trying_all(commands, i + 1, results, st, e, depth)
    ELSE LET s == parse_and_execute(commands[i], st, e, depth + 1)
         IN  IF s.blocked THEN s
             ELSE or_loop_trying_all(commands, i + 1,
                                  Append(results, Label(commands[i], s.output)),
                                  s, e, depth)

\* the for loop of _execute_sequential, from commands[i] on
sequential_loop(commands, i, results, st, e, depth) ==
    IF i > Len(commands)
    THEN Return(st, TRUE, Join(results), <<>>, "none")
    ELSE IF commands[i] = <<>>
    THEN sequential_loop(commands, i + 1, results, st, e, depth)
    ELSE LET s == parse_and_execute(commands[i], st, e, depth + 1)
         IN  IF s.blocked THEN s
             ELSE sequential_loop(commands, i + 1,
                                 Append(results, Label(commands[i], s.output)),
                                 s, e, depth)

\* _execute_sequential that starts with the last sub-command
execute_sequential_from_the_right(chain, st, e, depth) ==
    LET commands == StrippedParts(chain, <<";">>)
    IN  sequential_loop([i \in 1..Len(commands) |->
                            commands[Len(commands) + 1 - i]],
                        1, <<>>, st, e, depth)

execute_sequential(chain, st, e, depth) ==
    sequential_loop(StrippedParts(chain, <<";">>), 1, <<>>, st, e, depth)

\* the for loop of _execute_conditional_and, from commands[i] on
and_loop(commands, i, results, st, e, depth) ==
    IF i > Len(commands)
    THEN Return(st, TRUE, Join(results), <<>>, "none")
    ELSE IF commands[i] = <<>>
    THEN and_loop(commands, i + 1, results, st, e, depth)
    ELSE LET s == parse_and_execute(commands[i], st, e, depth + 1)
             results1 == Append(results, Label(commands[i], s.output))
         IN  IF s.blocked THEN s
             ELSE IF ~s.success
             THEN Return(s, FALSE,
                         Join(results1) \o <<"\n", "(Chain stopped due to failure)">>,
                         <<>>, "none")
             ELSE and_loop(commands, i + 1, results1, s, e, depth)

execute_conditional_and(chain, st, e, depth) ==
    and_loop(StrippedParts(chain, <<"&", "&">>), 1, <<>>, st, e, depth)

\* the for loop of _execute_conditional_or, from commands[i] on
or_loop(commands, i, results, st, e, depth) ==
    IF i > Len(commands)
    THEN Return(st, FALSE, Join(results) \o <<"\n", "(All commands failed)">>,
                <<>>, "none")
    ELSE IF commands[i] = <<>>
    THEN or_loop(commands, i + 1, results, st, e, depth)
    ELSE LET s == parse_and_execute(commands[i], st, e, depth + 1)
             results1 == Append(results, Label(commands[i], s.output))
         IN  IF s.blocked THEN s
             ELSE IF s.success
             THEN Return(s, TRUE,
                         Join(results1) \o <<"\n", "(Chain succeeded)">>,
                         <<>>, "none")
             ELSE or_loop(commands, i + 1, results1, s, e, depth)

execute_conditional_or(chain, st, e, depth) ==
    or_loop(StrippedParts(chain, <<"|", "|">>), 1, <<>>, st, e, depth)

\* a dispatch that looks for '&&' before '||'
DispatchAndBeforeOr(chain) ==
    IF EndsWith(chain, <<" ", "&">>) THEN "background"
    ELSE IF Contains(chain, <<";">>) THEN "sequential"
    ELSE IF Contains(chain, <<"&", "&">>) THEN "and"
    ELSE IF Contains(chain, <<"|", "|">>) THEN "or"
    ELSE IF Contains(chain, <<"|">>) THEN "pipe"
    ELSE "single"

\* the strategy _parse_and_execute selects for a stripped expression
Dispatch(chain) ==
    IF EndsWith(chain, <<" ", "&">>) THEN "background"
    ELSE IF Contains(chain, <<";">>) THEN "sequential"
    ELSE IF Contains(chain, <<"|", "|">>) THEN "or"
    ELSE IF Contains(chain, <<"&", "&">>) THEN "and"
    ELSE IF Contains(chain, <<"|">>) THEN "pipe"
    ELSE "single"

\* _parse_and_execute; every call that returns is recorded in the trace with
\* its stripped argument, its strategy, its nesting depth and what it returned
parse_and_execute(chain0, st, e, depth) ==
    LET chain == Strip(chain0)
        kind == Dispatch(chain)
        s == CASE kind = "background" ->
                    execute_background(Strip(SubSeq(chain, 1, Len(chain) - 1)), st, e)
               [] kind = "sequential" -> execute_sequential(chain, st, e, depth)
               [] kind = "or" -> execute_conditional_or(chain, st, e, depth)
               [] kind = "and" -> execute_conditional_and(chain, st, e, depth)
               [] kind = "pipe" -> execute_pipe(chain, st, e)
               [] OTHER -> execute_single_command(chain, st, e)
    IN  IF s.blocked THEN s
        ELSE [s EXCEPT !.trace = Append(@,
                 [cmd |-> chain, kind |-> kind, depth |-> depth,
                  success |-> s.success, output |-> s.output,
                  stages |-> s.stages, proc |-> s.proc])]

(***************************************************************************)
(* Inputs: expressions built from at most MaxCmds commands, the operators  *)
(* between them and a tail.                                                *)
(***************************************************************************)
Cmds == {<<"t">>, <<"f">>}      \* t exits with 0, f with 1

Ops == { <<";">>, <<"&", "&">>, <<"|", "|">>, <<"|">>,
         <<" ", "&", "&", " ">>, <<" ", "&", ";">>, <<" ", "&", " ", "|">> }

Tails == { <<>>, <<" ", "&">>, <<"&">>, <<";">>, <<" ">> }

RECURSIVE Build(_, _, _)
Build(cs, ops, i) ==
    IF i = Len(cs) THEN cs[i]
    ELSE cs[i] \o ops[i] \o Build(cs, ops, i + 1)

Exprs ==
    UNION { { Build(cs, ops, 1) \o tl :
                cs \in [1..n -> Cmds], ops \in [1..(n - 1) -> Ops], tl \in Tails }
            : n \in 1..MaxCmds }

\* what is started through the manager's own interface: a command and what
\* the operating system does with it
Programs ==
    { [command |-> <<"t">>, env |-> [out |-> "text", err |-> "text", fault |-> "none"]],
      [command |-> <<"f">>, env |-> [out |-> "text", err |-> "text", fault |-> "undecodable"]],
      [command |-> <<"t">>, env |-> [out |-> "text", err |-> "text", fault |-> "spawn_error"]] }
PMIds == {NoId, BgId(1)}
KillIds == {BgId(1), BgId(2)}

(***************************************************************************)
(* State after construction                                                *)
(***************************************************************************)
\* the caller of the Session Manager is between two calls
Idle == [pc |-> "idle", op |-> "none", id |-> <<>>, arg |-> <<>>, obj |-> 0,
         ret |-> "none", value |-> <<>>, elapsed |-> 0, todo |-> <<>>]

\* ProcessManager.__init__ and CommandChainExecutor.__init__
ExecutorConstructed ==
    /\ result = <<>>
    /\ trace = <<>>
    /\ command_history = <<>>
    /\ last_exit_code = 0
    /\ process_counter = 0
    /\ running_processes = <<>>
    /\ os_procs = <<>>
    /\ monitors = <<>>
    /\ killer = [pc |-> "idle", id |-> NoId, ret |-> "none", process |-> 0,
                 polled |-> "none"]
    /\ start_ret = NoId

\* InteractiveSessionManager.__init__: a manager m is [sessions,
\* session_counter, session_objects, issued]
NewManager ==
    [sessions |-> <<>>, session_counter |-> 0, session_objects |-> <<>>,
     issued |-> <<>>]

\* the fields of the manager are those of m, no session has been started
ManagerIs(m) ==
    /\ sessions = m.sessions
    /\ session_counter = m.session_counter
    /\ session_objects = m.session_objects
    /\ issued = m.issued
    /\ session_procs = <<>>
    /\ session_threads = <<>>
    /\ ticks = 0

Constructed ==
    /\ ExecutorConstructed
    /\ ManagerIs(NewManager)
    /\ caller = Idle

\* a caller is about to pass command_chain to execute_command_chain
Init ==
    /\ Constructed
    /\ command_chain \in Exprs
    /\ env \in Envs
    /\ pc = "call"

\* the manager is driven through its own interface
InitPM ==
    /\ Constructed
    /\ command_chain = <<>>
    /\ env \in {[out |-> "text", err |-> "text", fault |-> "none"]}
    /\ pc = "idle"

(***************************************************************************)
(* CommandChainExecutor.execute_command_chain                              *)
(***************************************************************************)
execute_command_chain ==
    /\ pc = "call"
    /\ LET st0 == [success |-> FALSE, output |-> <<>>, blocked |-> FALSE,
                   stages |-> <<>>, proc |-> "none", trace |-> <<>>, last_exit_code |-> last_exit_code,
                   pm |-> [counter |-> process_counter,
                           reg |-> running_processes,
                           procs |-> os_procs, mons |-> monitors]]
           st == parse_and_execute(command_chain, st0, env, 0)
       IN  /\ command_history' = Append(command_history, command_chain)
           /\ pc' = IF st.blocked THEN "blocked" ELSE "returned"
           /\ result' = IF st.blocked THEN <<>> ELSE <<st.success, st.output>>
           /\ trace' = st.trace
           /\ last_exit_code' = st.last_exit_code
           /\ process_counter' = st.pm.counter
           /\ running_processes' = st.pm.reg
           /\ os_procs' = st.pm.procs
           /\ monitors' = st.pm.mons
    /\ UNCHANGED <<command_chain, env, killer, start_ret>>
    /\ UNCHANGED svars

(***************************************************************************)
(* ProcessManager                                                          *)
(***************************************************************************)
start ==
    /\ pc = "idle"
    /\ Len(os_procs) < MaxProcs
    /\ process_counter < MaxProcs
    /\ \E program \in Programs, process_id \in PMIds :
          LET s == start_background_process(program.command, process_id,
                       [counter |-> process_counter, reg |-> running_processes,
                        procs |-> os_procs, mons |-> monitors], program.env)
          IN  /\ process_counter' = s.pm.counter
              /\ running_processes' = s.pm.reg
              /\ os_procs' = s.pm.procs
              /\ monitors' = s.pm.mons
              /\ start_ret' = s.ret
    /\ UNCHANGED <<command_chain, env, pc, result, trace, command_history,
                   last_exit_code, killer>>
    /\ UNCHANGED svars

\* the operating system: process h exits
ProcessExit(h) ==
    /\ os_procs[h].state = "running"
    /\ os_procs[h].env.fault # "hang" \/ os_procs[h].signal # "none"
    /\ os_procs' = [os_procs EXCEPT
          ![h].state = "exited",
          ![h].returncode = CASE os_procs[h].signal = "TERM" -> -15
                              [] os_procs[h].signal = "KILL" -> -9
                              [] OTHER -> ExitCode(os_procs[h].command)]
    /\ UNCHANGED <<command_chain, env, pc, result, trace, command_history,
                   last_exit_code, process_counter, running_processes,
                   monitors, killer, start_ret>>
    /\ UNCHANGED svars

\* an update that stores the output and forgets the status
CompletedKeepingStatus(rec, p) ==
    [rec EXCEPT !.return_code = <<p.returncode>>,
                !.stdout = Stdout(p.command, p.env),
                !.stderr = Stderr(p.command, p.env),
                !.end_time = TRUE]

\* dict.update of _monitor_process, normal return of communicate()
Completed(rec, p) ==
    [rec EXCEPT !.status = IF p.returncode = 0 THEN "completed" ELSE "failed",
                !.return_code = <<p.returncode>>,
                !.stdout = Stdout(p.command, p.env),
                !.stderr = Stderr(p.command, p.env),
                !.end_time = TRUE]

\* dict.update of _monitor_process, communicate() raised
Errored(rec) ==
    [rec EXCEPT !.status = "error", !.error = <<ErrText>>, !.end_time = TRUE]

\* ProcessManager._monitor_process, once communicate() has come back
monitor_process(h) ==
    /\ monitors[h].pc = "communicate"
    /\ os_procs[h].state = "exited"
    /\ LET id == monitors[h].process_id
           p == os_procs[h]
       IN  running_processes' = [running_processes EXCEPT ![id] =
              IF p.env.fault = "undecodable" THEN Errored(@) ELSE Completed(@, p)]
    /\ monitors' = [monitors EXCEPT ![h].pc = "done"]
    /\ UNCHANGED <<command_chain, env, pc, result, trace, command_history,
                   last_exit_code, process_counter, os_procs, killer, start_ret>>
    /\ UNCHANGED svars

\* ProcessManager.kill_process up to time.sleep(1)
kill_process ==
    /\ pc = "idle"
    /\ killer.pc = "idle"
    /\ \E process_id \in KillIds :
          IF process_id \notin DOMAIN running_processes
          THEN /\ killer' = [pc |-> "idle", id |-> process_id, ret |-> "False",
                             process |-> 0, polled |-> "none"]
               /\ UNCHANGED <<os_procs, running_processes>>
          ELSE LET process == running_processes[process_id].process
               IN  IF os_procs[process].state = "running"
                   THEN /\ os_procs' = [os_procs EXCEPT ![process].signal = "TERM"]
                        /\ killer' = [pc |-> "sleep", id |-> process_id,
                                      ret |-> "none", process |-> process,
                                      polled |-> "running"]
                        /\ UNCHANGED running_processes
                   ELSE /\ running_processes' =
                              [running_processes EXCEPT ![process_id].status = "killed"]
                        /\ killer' = [pc |-> "idle", id |-> process_id,
                                      ret |-> "True", process |-> process,
                                      polled |-> "exited"]
                        /\ UNCHANGED os_procs
    /\ UNCHANGED <<command_chain, env, pc, result, trace, command_history,
                   last_exit_code, process_counter, monitors, start_ret>>
    /\ UNCHANGED svars

\* ProcessManager.kill_process after time.sleep(1)
kill_process_after_sleep ==
    /\ killer.pc = "sleep"
    /\ LET process_id == killer.id
           process == killer.process
       IN  /\ os_procs' = IF os_procs[process].state = "running"
                          THEN [os_procs EXCEPT ![process].signal = "KILL"]
                          ELSE os_procs
           /\ running_processes' =
                 [running_processes EXCEPT ![process_id].status = "killed"]
           /\ killer' = [killer EXCEPT !.pc = "idle", !.ret = "True"]
    /\ UNCHANGED <<command_chain, env, pc, result, trace, command_history,
                   last_exit_code, process_counter, monitors, start_ret>>
    /\ UNCHANGED svars

Next ==
    \/ execute_command_chain
    \/ \E h \in DOMAIN os_procs : ProcessExit(h)
    \/ \E h \in DOMAIN monitors : monitor_process(h)

Spec == Init /\ [][Next]_vars

NextPM ==
    \/ start
    \/ \E h \in DOMAIN os_procs : ProcessExit(h)
    \/ \E h \in DOMAIN monitors : monitor_process(h)
    \/ kill_process
    \/ kill_process_after_sleep

SpecPM == InitPM /\ [][NextPM]_vars

\* every monitor thread is scheduled, and a caller asleep in kill_process wakes up
FairSpecPM ==
    /\ SpecPM
    /\ \A h \in 1..MaxProcs : WF_vars(h \in DOMAIN monitors /\ monitor_process(h))
    /\ WF_vars(kill_process_after_sleep)

(***************************************************************************)
(* Interactive sessions (src/terminal/interactive_session_handler.py).     *)
(* Lines, commands and patterns are Python strings: sequences of           *)
(* characters.                                                             *)
(***************************************************************************)
UpperCase == <<"A", "B", "C", "D", "E", "F", "G", "H", "I", "J", "K", "L", "M",
             "N", "O", "P", "Q", "R", "S", "T", "U", "V", "W", "X", "Y", "Z">>

LowerCase == <<"a", "b", "c", "d", "e", "f", "g", "h", "i", "j", "k", "l", "m",
             "n", "o", "p", "q", "r", "s", "t", "u", "v", "w", "x", "y", "z">>

\* str.lower
Lower(s) ==
    [i \in DOMAIN s |->
        IF \E k \in DOMAIN UpperCase : UpperCase[k] = s[i]
        THEN LowerCase[CHOOSE k \in DOMAIN UpperCase : UpperCase[k] = s[i]]
        ELSE s[i]]

\* the text matches lit\s*$ from position k on
SuffixAt(text, lit, k) ==
    /\ k >= 1
    /\ k + Len(lit) - 1 <= Len(text)
    /\ SubSeq(text, k, k + Len(lit) - 1) = lit
    /\ \A i \in (k + Len(lit))..Len(text) : text[i] \in Whitespace

\* the characters a..b of the text can be matched by .*
Dots(text, a, b) == \A i \in a..b : text[i] # "\n"

\* re.search(pattern, text) for the forms of pattern the source uses
re_search(pattern, text) ==
    LET P == 1..Len(text)
    IN  CASE pattern.form = "literal" ->        \* lit
                Contains(text, pattern.lit)
          [] pattern.form = "ends" ->           \* .*lit\s*$   and   lit\s*$
                \E k \in P : SuffixAt(text, pattern.lit, k)
          [] pattern.form = "user@host" ->      \* [^@]+@[^:]+:.*lit\s*$
                \E a \in P, c \in P, k \in P :
                    /\ a >= 2 /\ text[a - 1] # "@" /\ text[a] = "@"
                    /\ c >= a + 2 /\ text[c] = ":"
                    /\ \A i \in (a + 1)..(c - 1) : text[i] # ":"
                    /\ k > c /\ Dots(text, c + 1, k - 1)
                    /\ SuffixAt(text, pattern.lit, k)
          [] pattern.form = "PS" ->             \* PS\s+.*lit\s*$
                \E p \in P, w \in P, k \in P :
                    /\ p + 1 <= Len(text) /\ text[p] = "P" /\ text[p + 1] = "S"
                    /\ w >= p + 2
                    /\ \A i \in (p + 2)..w : text[i] \in Whitespace
                    /\ k > w /\ Dots(text, w + 1, k - 1)
                    /\ SuffixAt(text, pattern.lit, k)
          [] pattern.form = "drive" ->          \* [A-Z]:\\.*lit\s*$
                \E p \in P, k \in P :
                    /\ p + 2 <= Len(text)
                    /\ \E u \in DOMAIN UpperCase : UpperCase[u] = text[p]
                    /\ text[p + 1] = ":" /\ text[p + 2] = "\\"
                    /\ k > p + 2 /\ Dots(text, p + 3, k - 1)
                    /\ SuffixAt(text, pattern.lit, k)

Pattern(form, lit) == [form |-> form, lit |-> lit]

\* InteractiveSession._get_prompt_patterns
get_prompt_patterns(session_type) ==
    LET ssh == << Pattern("user@host", <<"$">>), Pattern("user@host", <<"#">>),
                  Pattern("ends", <<"$">>), Pattern("ends", <<"#">>) >>
    IN  CASE session_type = "ssh" -> ssh
          [] session_type = "database" ->
                << Pattern("ends", <<">">>), Pattern("ends", <<"]">>),
                   Pattern("ends", <<":">>) >>
          [] session_type = "python" ->
                << Pattern("ends", <<">", ">", ">">>),
                   Pattern("ends", <<".", ".", ".">>) >>
          [] session_type = "node" ->
                << Pattern("ends", <<">">>), Pattern("ends", <<".", ".", ".">>) >>
          [] session_type = "powershell" -> << Pattern("PS", <<">">>) >>
          [] session_type = "cmd" -> << Pattern("drive", <<">">>) >>
          [] OTHER -> ssh       \* patterns.get(self.session_type, patterns['ssh'])

\* InteractiveSession._get_connection_patterns
get_connection_patterns ==
    [success |->
        << Pattern("literal", <<"c", "o", "n", "n", "e", "c", "t", "e", "d">>),
           Pattern("literal", <<"l", "o", "g", "i", "n", " ", "s", "u", "c", "c", "e", "s", "s", "f", "u", "l">>),
           Pattern("literal", <<"w", "e", "l", "c", "o", "m", "e">>),
           Pattern("literal", <<"a", "u", "t", "h", "e", "n", "t", "i", "c", "a", "t", "e", "d">>),
           Pattern("literal", <<"e", "s", "t", "a", "b", "l", "i", "s", "h", "e", "d">>) >>,
     failure |->
        << Pattern("literal", <<"c", "o", "n", "n", "e", "c", "t", "i", "o", "n", " ", "r", "e", "f", "u", "s", "e", "d">>),
           Pattern("literal", <<"a", "u", "t", "h", "e", "n", "t", "i", "c", "a", "t", "i", "o", "n", " ", "f", "a", "i", "l", "e", "d">>),
           Pattern("literal", <<"p", "e", "r", "m", "i", "s", "s", "i", "o", "n", " ", "d", "e", "n", "i", "e", "d">>),
           Pattern("literal", <<"h", "o", "s", "t", " ", "u", "n", "r", "e", "a", "c", "h", "a", "b", "l", "e">>),
           Pattern("literal", <<"t", "i", "m", "e", "o", "u", "t">>) >>]

\* any(re.search(pattern, text) for pattern in patterns)
SearchAny(patterns, text) ==
    \E i \in DOMAIN patterns : re_search(patterns[i], text)

\* a _detect_session_type that looks for the Python REPL first
detect_session_type_python_first(command) ==
    LET command_lower == Lower(command)
        has(keyword) == Contains(command_lower, keyword)
    IN  IF has(<<"p", "y", "t", "h", "o", "n">>) THEN "python"
        ELSE IF has(<<"s", "s", "h">>) THEN "ssh"
        ELSE IF \E db \in { <<"m", "y", "s", "q", "l">>, <<"p", "s", "q", "l">>,
                            <<"s", "q", "l", "i", "t", "e">>, <<"m", "o", "n", "g", "o">> } : has(db)
        THEN "database"
        ELSE IF has(<<"n", "o", "d", "e">>) THEN "node"
        ELSE IF has(<<"p", "o", "w", "e", "r", "s", "h", "e", "l", "l">>)
        THEN "powershell"
        ELSE IF has(<<"c", "m", "d">>) THEN "cmd"
        ELSE "generic"

\* InteractiveSessionManager._detect_session_type
detect_session_type(command) ==
    LET command_lower == Lower(command)
        has(keyword) == Contains(command_lower, keyword)
    IN  IF has(<<"s", "s", "h">>) THEN "ssh"
        ELSE IF \E db \in { <<"m", "y", "s", "q", "l">>, <<"p", "s", "q", "l">>,
                            <<"s", "q", "l", "i", "t", "e">>, <<"m", "o", "n", "g", "o">> } : has(db)
        THEN "database"
        ELSE IF has(<<"p", "y", "t", "h", "o", "n">>) THEN "python"
        ELSE IF has(<<"n", "o", "d", "e">>) THEN "node"
        ELSE IF has(<<"p", "o", "w", "e", "r", "s", "h", "e", "l", "l">>)
        THEN "powershell"
        ELSE IF has(<<"c", "m", "d">>) THEN "cmd"
        ELSE "generic"

(***************************************************************************)
(* InteractiveSession and the processes it talks to                        *)
(***************************************************************************)
ConnectTimeout == 30    \* _wait_for_connection(timeout=30)
OutputTimeout == 5      \* get_output(timeout=5)
IdleTimeout == 300      \* timeout = 300 in _monitor_session

\* Times are kept as the seconds that have passed since: since_activity is
\* datetime.now() - self.last_activity, elapsed is time.time() - start_time.
\* timedelta.seconds of such a difference:
Seconds(delta) == delta % 86400

SessionId(n) == <<"interactive_", ToString(n)>>  \* f"interactive_{self.session_counter}"

NoType == "None"        \* session_type None: `not session_type` holds

\* an InteractiveSession.__init__ that starts the session in EXECUTING
NewSession_executing(session_id, command, session_type) ==
    [session_id |-> session_id, command |-> command,
     session_type |-> session_type, state |-> "EXECUTING",
     since_activity |-> 0, process |-> 0,
     output_queue |-> <<>>, error_queue |-> <<>>,
     session_log |-> <<>>, command_history |-> <<>>,
     last_prompt |-> Absent, connection_error |-> Absent,
     last_error |-> Absent, disconnect_reason |-> "none"]

\* InteractiveSession.__init__
NewSession(session_id, command, session_type) ==
    [session_id |-> session_id, command |-> command,
     session_type |-> session_type, state |-> "IDLE",
     since_activity |-> 0, process |-> 0,
     output_queue |-> <<>>, error_queue |-> <<>>,
     session_log |-> <<>>, command_history |-> <<>>,
     last_prompt |-> Absent, connection_error |-> Absent,
     last_error |-> Absent, disconnect_reason |-> "none"]

\* what a command does once it runs: the lines it writes to stdout and to
\* stderr, whether it writes them as soon as it starts, whether it exits by
\* itself, and whether the operating system can create it at all
Program(command, out, err, eager, exits, fault) ==
    [command |-> command, out |-> out, err |-> err, eager |-> eager,
     exits |-> exits, fault |-> fault]

PythonCommand == <<"p", "y", "t", "h", "o", "n">>
SshCommand == <<"s", "s", "h", " ", "h">>
VerboseCommand == <<"s", "s", "h", " ", "-", "v">>
CatCommand == <<"c", "a", "t">>

PromptLine == <<">", ">", ">", " ", "\n">>
SuccessLine == <<"C", "o", "n", "n", "e", "c", "t", "e", "d", "\n">>
FailureLine == <<"t", "i", "m", "e", "o", "u", "t", "\n">>
FirstLine == <<"1", "\n">>       \* lines that match no pattern
SecondLine == <<"2", "\n">>

SessionPrograms ==
    { Program(PythonCommand, <<PromptLine>>, <<>>, TRUE, FALSE, "none"),
      Program(PythonCommand, <<PromptLine>>, <<>>, TRUE, TRUE, "none"),
      Program(SshCommand, <<SuccessLine>>, <<>>, FALSE, TRUE, "none"),
      Program(SshCommand, <<>>, <<FailureLine>>, TRUE, FALSE, "none"),
      Program(VerboseCommand, <<>>, <<SuccessLine>>, TRUE, FALSE, "none"),
      Program(CatCommand, <<>>, <<>>, TRUE, FALSE, "none"),
      Program(CatCommand, <<>>, <<>>, TRUE, FALSE, "spawn_error") }

\* subprocess.Popen(self.command, shell=True, stdin=PIPE, stdout=PIPE,
\* stderr=PIPE, text=True, bufsize=0): stdout and stderr hold the lines
\* written and not yet read, pending the lines not yet written
Popen(program) ==
    [program |-> program, state |-> "running", signal |-> "none",
     stdin |-> <<>>,
     stdout |-> IF program.eager THEN program.out ELSE <<>>,
     stderr |-> IF program.eager THEN program.err ELSE <<>>,
     pending_out |-> IF program.eager THEN <<>> ELSE program.out,
     pending_err |-> IF program.eager THEN <<>> ELSE program.err]

\* process.poll() is None
Running(procs, process) == procs[process].state = "running"

\* the threads that read a stream of the process
Readers == {"_monitor_output", "_monitor_error"}

\* InteractiveSession._start_threads for session object o and its new
\* process, each thread run up to the first call in which it waits.  A
\* reader tests process.poll() and calls readline(); the readers in `late`
\* make the test after the process has exited and return at once.  The
\* monitor finds the state CONNECTING and calls time.sleep(1).
start_threads(o, process, late) ==
    LET reader(target) ==
            IF target \in late
            THEN [obj |-> o, target |-> target, pc |-> "done", reading |-> 0,
                  raced |-> FALSE]
            ELSE [obj |-> o, target |-> target, pc |-> "readline",
                  reading |-> process, raced |-> FALSE]
    IN  << reader("_monitor_output"), reader("_monitor_error"),
           [obj |-> o, target |-> "_monitor_session", pc |-> "sleep",
            reading |-> 0, raced |-> FALSE] >>

\* self.last_activity = datetime.now() in a reader thread or in send_input.
\* _monitor_session evaluates datetime.now() - self.last_activity without a
\* lock, the clock first: a monitor of the session that is about to make its
\* check may have read the clock before this assignment.
set_last_activity(threads, o) ==
    [i \in DOMAIN threads |->
        IF /\ threads[i].obj = o
           /\ threads[i].target = "_monitor_session"
           /\ threads[i].pc = "sleep"
        THEN [threads[i] EXCEPT !.raced = TRUE]
        ELSE threads[i]]

\* one pass of _wait_for_connection over the lines of the output queue:
\* the first line that matches decides, the lines before it are consumed
RECURSIVE ScanOutput(_, _)
ScanOutput(self, queue) ==
    IF queue = <<>>
    THEN [decided |-> "none", self |-> [self EXCEPT !.output_queue = <<>>]]
    ELSE LET line == Head(queue)
             rest == [self EXCEPT !.output_queue = Tail(queue)]
         IN  IF SearchAny(get_connection_patterns.success, Lower(line))
             THEN [decided |-> "True", self |-> rest]
             ELSE IF SearchAny(get_connection_patterns.failure, Lower(line))
             THEN [decided |-> "False",
                   self |-> [rest EXCEPT !.connection_error = line]]
             ELSE IF SearchAny(get_prompt_patterns(self.session_type), line)
             THEN [decided |-> "True",
                   self |-> [rest EXCEPT !.last_prompt = line]]
             ELSE ScanOutput(self, Tail(queue))

\* the pass over the error queue: only the failure patterns are looked for
RECURSIVE ScanError(_, _)
ScanError(self, queue) ==
    IF queue = <<>>
    THEN [decided |-> "none", self |-> [self EXCEPT !.error_queue = <<>>]]
    ELSE LET error == Head(queue)
             rest == [self EXCEPT !.error_queue = Tail(queue)]
         IN  IF SearchAny(get_connection_patterns.failure, Lower(error))
             THEN [decided |-> "False",
                   self |-> [rest EXCEPT !.connection_error = error]]
             ELSE ScanError(self, Tail(queue))

\* _wait_for_connection that never looks at the clock
wait_for_connection_without_timeout(self, elapsed) ==
    LET o == ScanOutput(self, self.output_queue)
    IN  IF o.decided # "none" THEN o
        ELSE ScanError(o.self, o.self.error_queue)

\* one iteration of the loop of InteractiveSession._wait_for_connection,
\* entered when the call is `elapsed` seconds old
wait_for_connection(self, elapsed) ==
    IF ~(elapsed < ConnectTimeout)
    THEN [decided |-> "False", self |-> self]
    ELSE LET o == ScanOutput(self, self.output_queue)
         IN  IF o.decided # "none" THEN o
             ELSE ScanError(o.self, o.self.error_queue)

\* send_input that does not look at the state of the session
send_input_in_any_state(self, procs, input_text) ==
    IF self.process = 0
    THEN [ret |-> "False", self |-> self, procs |-> procs]
    ELSE IF ~Running(procs, self.process)
    THEN [ret |-> "False", self |-> [self EXCEPT !.last_error = <<ErrText>>],
          procs |-> procs]
    ELSE [ret |-> "True",
          self |-> [self EXCEPT
                      !.command_history = Append(@, input_text),
                      !.since_activity = 0],
          procs |-> [procs EXCEPT
                      ![self.process].stdin = Append(@, input_text \o <<"\n">>)]]

\* InteractiveSession.send_input; procs are the processes of the sessions
send_input(self, procs, input_text) ==
    IF self.process = 0 \/ self.state # "CONNECTED"
    THEN [ret |-> "False", self |-> self, procs |-> procs]
    ELSE IF ~Running(procs, self.process)
    THEN \* the write to the closed pipe raises
         [ret |-> "False", self |-> [self EXCEPT !.last_error = <<ErrText>>],
          procs |-> procs]
    ELSE [ret |-> "True",
          self |-> [self EXCEPT
                      !.command_history = Append(@, input_text),
                      !.since_activity = 0],
          procs |-> [procs EXCEPT
                      ![self.process].stdin = Append(@, input_text \o <<"\n">>)]]

\* exit_commands.get(self.session_type, 'exit') in InteractiveSession.close
exit_command(session_type) ==
    CASE session_type = "database" -> <<"q", "u", "i", "t">>
      [] session_type = "python" -> <<"e", "x", "i", "t", "(", ")">>
      [] session_type = "node" -> <<".", "e", "x", "i", "t">>
      [] OTHER -> <<"e", "x", "i", "t">>

\* InteractiveSession.get_status
get_status(self) ==
    [session_id |-> self.session_id, state |-> self.state,
     session_type |-> self.session_type,
     since_activity |-> self.since_activity, command |-> self.command,
     process_id |-> self.process]

(***************************************************************************)
(* Inputs of the Session Manager's interface                               *)
(***************************************************************************)
MaxSessions == 2    \* calls of create_session
MaxSpawns == 1      \* processes created by the sessions' start()
MaxTicks == 1       \* movements of the clock
MaxInputs == 1      \* lines a caller sends to one session

\* the identifiers a caller passes: those create_session has returned
SessionIds == { issued[n] : n \in DOMAIN issued }

CreateInputs ==
    { [command |-> PythonCommand, session_type |-> NoType],
      [command |-> SshCommand, session_type |-> NoType],
      [command |-> VerboseCommand, session_type |-> NoType],
      [command |-> CatCommand, session_type |-> NoType],
      [command |-> CatCommand, session_type |-> "python"] }

Inputs == { <<"1">> }

CleanupTimeouts == {0, 300}

TickSizes == {1, 30, 301}

\* a session that nobody has used for more than a day
DaySizes == {86401}

\* the Session Manager is driven through its own interface
InitManager ==
    /\ Constructed
    /\ command_chain = <<>>
    /\ env \in {[out |-> "text", err |-> "text", fault |-> "none"]}
    /\ pc = "sessions"

\* the call has returned
Returned(op, session_id, ret, value) ==
    [Idle EXCEPT !.op = op, !.id = session_id, !.ret = ret, !.value = value]

(***************************************************************************)
(* InteractiveSessionManager                                               *)
(***************************************************************************)
\* create_session that numbers a session by the sessions now registered
create_counting_sessions(m, command, session_type0) ==
    LET counter == Cardinality(DOMAIN m.sessions) + 1
        session_id == SessionId(counter)
        session_type == IF session_type0 = NoType
                        THEN detect_session_type(command)
                        ELSE session_type0
        session == NewSession(session_id, command, session_type)
    IN  [sessions |-> Put(m.sessions, session_id, Len(m.session_objects) + 1),
         session_counter |-> counter,
         session_objects |-> Append(m.session_objects, session),
         issued |-> Append(m.issued, session_id)]

\* InteractiveSessionManager.create_session on the manager m
create(m, command, session_type0) ==
    LET counter == m.session_counter + 1
        session_id == SessionId(counter)
        session_type == IF session_type0 = NoType
                        THEN detect_session_type(command)
                        ELSE session_type0
        session == NewSession(session_id, command, session_type)
    IN  [sessions |-> Put(m.sessions, session_id, Len(m.session_objects) + 1),
         session_counter |-> counter,
         session_objects |-> Append(m.session_objects, session),
         issued |-> Append(m.issued, session_id)]

create_session ==
    /\ pc = "sessions"
    /\ caller.pc = "idle"
    /\ session_counter < MaxSessions
    /\ \E input \in CreateInputs :
          LET m == create([sessions |-> sessions,
                           session_counter |-> session_counter,
                           session_objects |-> session_objects,
                           issued |-> issued],
                          input.command, input.session_type)
          IN  /\ session_counter' = m.session_counter
              /\ session_objects' = m.session_objects
              /\ sessions' = m.sessions
              /\ issued' = m.issued
              /\ caller' = [Returned("create", SessionId(m.session_counter),
                                     "none", SessionId(m.session_counter))
                               EXCEPT !.arg = <<input.session_type>>]
    /\ UNCHANGED <<session_procs, session_threads, ticks>>
    /\ UNCHANGED evars

\* start_session and InteractiveSession.start up to _wait_for_connection
start_session ==
    /\ pc = "sessions"
    /\ caller.pc = "idle"
    /\ \E session_id \in SessionIds :
          IF session_id \notin DOMAIN sessions
          THEN /\ caller' = Returned("start", session_id, "False", <<>>)
               /\ UNCHANGED <<session_objects, session_procs, session_threads>>
          ELSE LET o == sessions[session_id]
               IN  \E program \in SessionPrograms, late \in SUBSET Readers :
                      /\ program.command = session_objects[o].command
                      /\ late # {} => program.exits /\ program.fault = "none"
                      /\ IF program.fault = "spawn_error"
                         THEN /\ session_objects' =
                                    [session_objects EXCEPT
                                        ![o].state = "ERROR",
                                        ![o].last_error = <<ErrText>>]
                              /\ caller' = Returned("start", session_id,
                                                    "False", <<>>)
                              /\ UNCHANGED <<session_procs, session_threads>>
                         ELSE /\ Len(session_procs) < MaxSpawns
                              /\ session_procs' =
                                    Append(session_procs,
                                        IF late = {} THEN Popen(program)
                                        ELSE [Popen(program) EXCEPT
                                                 !.state = "exited"])
                              /\ session_objects' =
                                    [session_objects EXCEPT
                                        ![o].state = "CONNECTING",
                                        ![o].process = Len(session_procs) + 1]
                              /\ session_threads' =
                                    session_threads \o
                                    start_threads(o, Len(session_procs) + 1,
                                                  late)
                              /\ caller' = [Idle EXCEPT
                                    !.pc = "wait_for_connection",
                                    !.op = "start", !.id = session_id,
                                    !.obj = o]
    /\ UNCHANGED <<sessions, session_counter, ticks, issued>>
    /\ UNCHANGED evars

\* the queues of the session hold a line
QueuesHoldLine(self) == self.output_queue # <<>> \/ self.error_queue # <<>>

\* InteractiveSession.start from _wait_for_connection on: an iteration of
\* the loop that finds a line in a queue or finds the time over
start_wait_for_connection ==
    /\ caller.pc = "wait_for_connection"
    /\ LET o == caller.obj
           self == session_objects[o]
           w == wait_for_connection(self, caller.elapsed)
       IN  /\ QueuesHoldLine(self) \/ ~(caller.elapsed < ConnectTimeout)
           /\ session_objects' =
                 [session_objects EXCEPT ![o] =
                     CASE w.decided = "True" ->
                            [w.self EXCEPT !.state = "CONNECTED"]
                       [] w.decided = "False" ->
                            [w.self EXCEPT !.state = "ERROR"]
                       [] OTHER -> w.self]
           /\ caller' = IF w.decided = "none" THEN caller
                        ELSE Returned("start", caller.id, w.decided, <<>>)
    /\ UNCHANGED <<sessions, session_counter, session_procs, session_threads,
                   ticks, issued>>
    /\ UNCHANGED evars

send_to_session ==
    /\ pc = "sessions"
    /\ caller.pc = "idle"
    /\ \E session_id \in SessionIds, input_text \in Inputs :
          IF session_id \notin DOMAIN sessions
          THEN /\ caller' = Returned("send", session_id, "False", input_text)
               /\ UNCHANGED <<session_objects, session_procs,
                              session_threads>>
          ELSE LET o == sessions[session_id]
                   s == send_input(session_objects[o], session_procs,
                                   input_text)
               IN  /\ Len(session_objects[o].command_history) < MaxInputs
                   /\ session_objects' = [session_objects EXCEPT ![o] = s.self]
                   /\ session_procs' = s.procs
                   /\ session_threads' =
                         IF s.ret = "True"
                         THEN set_last_activity(session_threads, o)
                         ELSE session_threads
                   /\ caller' = Returned("send", session_id, s.ret, input_text)
    /\ UNCHANGED <<sessions, session_counter, ticks, issued>>
    /\ UNCHANGED evars

\* a get_session_output that leaves the lines it returns in the queue
get_session_output_peeking ==
    /\ pc = "sessions"
    /\ caller.pc = "idle"
    /\ \E session_id \in SessionIds :
          IF session_id \notin DOMAIN sessions
          THEN /\ caller' = Returned("output", session_id, "none", <<>>)
               /\ UNCHANGED session_objects
          ELSE LET o == sessions[session_id]
                   output_lines == session_objects[o].output_queue
               IN  IF output_lines # <<>>
                   THEN /\ caller' = Returned("output", session_id, "none",
                                              output_lines)
                        /\ UNCHANGED session_objects
                   ELSE /\ caller' = [Idle EXCEPT
                              !.pc = "get_output", !.op = "output",
                              !.id = session_id, !.obj = o]
                        /\ UNCHANGED session_objects
    /\ UNCHANGED <<sessions, session_counter, session_procs, session_threads,
                   ticks, issued>>
    /\ UNCHANGED evars

\* get_session_output and the first iteration of InteractiveSession.get_output
get_session_output ==
    /\ pc = "sessions"
    /\ caller.pc = "idle"
    /\ \E session_id \in SessionIds :
          IF session_id \notin DOMAIN sessions
          THEN /\ caller' = Returned("output", session_id, "none", <<>>)
               /\ UNCHANGED session_objects
          ELSE LET o == sessions[session_id]
                   output_lines == session_objects[o].output_queue
               IN  IF output_lines # <<>>
                   THEN /\ session_objects' =
                              [session_objects EXCEPT ![o].output_queue = <<>>]
                        /\ caller' = Returned("output", session_id, "none",
                                              output_lines)
                   ELSE /\ caller' = [Idle EXCEPT
                              !.pc = "get_output", !.op = "output",
                              !.id = session_id, !.obj = o]
                        /\ UNCHANGED session_objects
    /\ UNCHANGED <<sessions, session_counter, session_procs, session_threads,
                   ticks, issued>>
    /\ UNCHANGED evars

\* a later iteration of the loop of InteractiveSession.get_output
get_output ==
    /\ caller.pc = "get_output"
    /\ LET o == caller.obj
           self == session_objects[o]
           over == ~(caller.elapsed < OutputTimeout)
       IN  /\ over \/ self.output_queue # <<>>
           /\ session_objects' =
                 IF over THEN session_objects
                 ELSE [session_objects EXCEPT ![o].output_queue = <<>>]
           /\ caller' = Returned("output", caller.id, "none",
                                 IF over THEN <<>> ELSE self.output_queue)
    /\ UNCHANGED <<sessions, session_counter, session_procs, session_threads,
                   ticks, issued>>
    /\ UNCHANGED evars

\* a removal that empties the registry
Del_every_session(reg, id) == [k \in {} |-> reg[k]]

\* del self.sessions[session_id]
Del(reg, id) == [k \in DOMAIN reg \ {id} |-> reg[k]]

\* a close_session that reports success for an identifier it does not know
close_session_of_any_id ==
    /\ pc = "sessions"
    /\ caller.pc = "idle"
    /\ \E session_id \in SessionIds :
          caller' = IF session_id \notin DOMAIN sessions
                    THEN Returned("close", session_id, "True", <<>>)
                    ELSE [Idle EXCEPT !.pc = "close", !.op = "close",
                                      !.id = session_id,
                                      !.obj = sessions[session_id]]
    /\ UNCHANGED <<sessions, session_counter, session_objects, session_procs,
                   session_threads, ticks, issued>>
    /\ UNCHANGED evars

close_session ==
    /\ pc = "sessions"
    /\ caller.pc = "idle"
    /\ \E session_id \in SessionIds :
          caller' = IF session_id \notin DOMAIN sessions
                    THEN Returned("close", session_id, "False", <<>>)
                    ELSE [Idle EXCEPT !.pc = "close", !.op = "close",
                                      !.id = session_id,
                                      !.obj = sessions[session_id]]
    /\ UNCHANGED <<sessions, session_counter, session_objects, session_procs,
                   session_threads, ticks, issued>>
    /\ UNCHANGED evars

\* the end of InteractiveSession.close and of close_session, and the next
\* round of the loop of cleanup_inactive_sessions
CloseReturns ==
    /\ sessions' = Del(sessions, caller.id)
    /\ caller' = IF caller.todo = <<>>
                 THEN [Returned(caller.op, caller.id, "True", caller.value)
                          EXCEPT !.arg = caller.arg]
                 ELSE [caller EXCEPT !.pc = "close", !.id = Head(caller.todo),
                                     !.obj = sessions[Head(caller.todo)],
                                     !.todo = Tail(caller.todo)]

\* InteractiveSession.close up to the first time.sleep(1)
close ==
    /\ caller.pc = "close"
    /\ LET o == caller.obj
           self == session_objects[o]
           s == send_input(self, session_procs,
                           exit_command(self.session_type))
       IN  IF self.process # 0
           THEN /\ session_objects' = [session_objects EXCEPT ![o] = s.self]
                /\ session_procs' = s.procs
                /\ session_threads' =
                      IF s.ret = "True"
                      THEN set_last_activity(session_threads, o)
                      ELSE session_threads
                /\ caller' = [caller EXCEPT !.pc = "close_sleep"]
                /\ UNCHANGED sessions
           ELSE /\ session_objects' =
                      [session_objects EXCEPT ![o].state = "DISCONNECTED"]
                /\ CloseReturns
                /\ UNCHANGED <<session_procs, session_threads>>
    /\ UNCHANGED <<session_counter, ticks, issued>>
    /\ UNCHANGED evars

\* a close that returns without assigning the state when the process has
\* exited by itself
close_terminate_keeping_state ==
    /\ caller.pc = "close_sleep"
    /\ LET o == caller.obj
           self == session_objects[o]
       IN  IF Running(session_procs, self.process)
           THEN /\ session_procs' =
                      [session_procs EXCEPT ![self.process].signal = "TERM"]
                /\ caller' = [caller EXCEPT !.pc = "close_sleep_again"]
                /\ UNCHANGED <<sessions, session_objects>>
           ELSE /\ CloseReturns
                /\ UNCHANGED <<session_procs, session_objects>>
    /\ UNCHANGED <<session_counter, session_threads, ticks, issued>>
    /\ UNCHANGED evars

\* InteractiveSession.close after the first time.sleep(1)
close_terminate ==
    /\ caller.pc = "close_sleep"
    /\ LET o == caller.obj
           self == session_objects[o]
       IN  IF Running(session_procs, self.process)
           THEN /\ session_procs' =
                      [session_procs EXCEPT ![self.process].signal = "TERM"]
                /\ caller' = [caller EXCEPT !.pc = "close_sleep_again"]
                /\ UNCHANGED <<sessions, session_objects>>
           ELSE /\ session_objects' =
                      [session_objects EXCEPT ![o].state = "DISCONNECTED"]
                /\ CloseReturns
                /\ UNCHANGED session_procs
    /\ UNCHANGED <<session_counter, session_threads, ticks, issued>>
    /\ UNCHANGED evars

\* InteractiveSession.close after the second time.sleep(1)
close_kill ==
    /\ caller.pc = "close_sleep_again"
    /\ LET o == caller.obj
           self == session_objects[o]
       IN  /\ session_procs' =
                 IF Running(session_procs, self.process)
                 THEN [session_procs EXCEPT ![self.process].signal = "KILL"]
                 ELSE session_procs
           /\ session_objects' =
                 [session_objects EXCEPT ![o].state = "DISCONNECTED"]
           /\ CloseReturns
    /\ UNCHANGED <<session_counter, session_threads, ticks, issued>>
    /\ UNCHANGED evars

\* list(self.sessions.items()) keeps the order of insertion
Registered == SelectSeq([n \in 1..session_counter |-> SessionId(n)],
                        LAMBDA id : id \in DOMAIN sessions)

\* cleanup_inactive_sessions up to its first close_session
cleanup_inactive_sessions ==
    /\ pc = "sessions"
    /\ caller.pc = "idle"
    /\ \E inactive_timeout \in CleanupTimeouts :
          LET inactive_sessions ==
                  SelectSeq(Registered, LAMBDA id :
                      Seconds(session_objects[sessions[id]].since_activity)
                          > inactive_timeout)
              count == <<Len(inactive_sessions)>>
          IN  caller' =
                 IF inactive_sessions = <<>>
                 THEN [Returned("cleanup", <<>>, "none", count)
                          EXCEPT !.arg = <<inactive_timeout>>]
                 ELSE [Idle EXCEPT !.pc = "close", !.op = "cleanup",
                                   !.arg = <<inactive_timeout>>,
                                   !.id = Head(inactive_sessions),
                                   !.obj = sessions[Head(inactive_sessions)],
                                   !.todo = Tail(inactive_sessions),
                                   !.value = count]
    /\ UNCHANGED <<sessions, session_counter, session_objects, session_procs,
                   session_threads, ticks, issued>>
    /\ UNCHANGED evars

\* get_session_status
get_session_status(session_id) ==
    IF session_id \in DOMAIN sessions
    THEN get_status(session_objects[sessions[session_id]])
    ELSE [state |-> "None"]

\* list_sessions
list_sessions ==
    [i \in DOMAIN Registered |-> get_session_status(Registered[i])]

(***************************************************************************)
(* The threads of a session                                                *)
(***************************************************************************)
\* _monitor_output (stream "stdout") and _monitor_error (stream "stderr"):
\* readline() returns a line or the end of the file, and the thread goes on
\* to the next readline() or returns
Reader(i, stream) ==
    LET thread == session_threads[i]
        o == thread.obj
        self == session_objects[o]
        process == thread.reading
        pipe == session_procs[process][stream]
        line == IF pipe # <<>> THEN Head(pipe) ELSE <<>>
        put == IF stream = "stdout"
               THEN [self EXCEPT
                       !.output_queue = Append(@, line),
                       !.since_activity = 0,
                       !.session_log = Append(@, [type |-> "output",
                                                  content |-> Strip(line)])]
               ELSE [self EXCEPT
                       !.error_queue = Append(@, line),
                       !.since_activity = 0,
                       !.session_log = Append(@, [type |-> "error",
                                                  content |-> Strip(line)])]
        \* while self.process.poll() is None
        again == IF self.process # 0 /\ Running(session_procs, self.process)
                 THEN [thread EXCEPT !.pc = "readline",
                                     !.reading = self.process]
                 ELSE [thread EXCEPT !.pc = "done"]
    IN  /\ thread.pc = "readline"
        /\ pipe # <<>> \/ ~Running(session_procs, process)
        /\ session_procs' =
              IF pipe # <<>>
              THEN [session_procs EXCEPT ![process][stream] = Tail(pipe)]
              ELSE session_procs
        /\ session_objects' =
              IF line # <<>> THEN [session_objects EXCEPT ![o] = put]
              ELSE session_objects
        /\ session_threads' =
              IF line # <<>>
              THEN set_last_activity([session_threads EXCEPT ![i] = again], o)
              ELSE [session_threads EXCEPT ![i] = again]

monitor_output(i) ==
    /\ session_threads[i].target = "_monitor_output"
    /\ Reader(i, "stdout")
    /\ UNCHANGED <<sessions, session_counter, caller, ticks, issued>>
    /\ UNCHANGED evars

monitor_error(i) ==
    /\ session_threads[i].target = "_monitor_error"
    /\ Reader(i, "stderr")
    /\ UNCHANGED <<sessions, session_counter, caller, ticks, issued>>
    /\ UNCHANGED evars

\* the while condition of _monitor_session
Live == {"CONNECTING", "CONNECTED"}

\* datetime.now() - self.last_activity as _monitor_session may see it: the
\* time since the last activity, or, when last_activity was assigned after
\* the monitor read the clock, a difference below zero
Differences(thread, self) ==
    {self.since_activity} \cup (IF thread.raced THEN {-1} ELSE {})

\* _monitor_session: the thread returns from time.sleep(1), makes its two
\* checks and tests the condition of the loop again
monitor_session(i) ==
    /\ session_threads[i].target = "_monitor_session"
    /\ LET thread == [session_threads[i] EXCEPT !.raced = FALSE]
           o == thread.obj
           self == session_objects[o]
           sleep == [thread EXCEPT !.pc = "sleep"]
           done == [thread EXCEPT !.pc = "done"]
       IN  /\ session_threads[i].pc = "sleep"
           /\ \E delta \in Differences(session_threads[i], self) :
               IF Seconds(delta) > IdleTimeout
               THEN /\ session_objects' = [session_objects EXCEPT
                          ![o].state = "DISCONNECTED",
                          ![o].disconnect_reason = "timeout"]
                    /\ session_threads' = [session_threads EXCEPT ![i] = done]
               ELSE IF self.process # 0
                       /\ ~Running(session_procs, self.process)
               THEN /\ session_objects' = [session_objects EXCEPT
                          ![o].state = "DISCONNECTED",
                          ![o].disconnect_reason = "process_ended"]
                    /\ session_threads' = [session_threads EXCEPT ![i] = done]
               ELSE /\ session_threads' = [session_threads EXCEPT ![i] =
                          IF self.state \in Live THEN sleep ELSE done]
                    /\ UNCHANGED session_objects
    /\ UNCHANGED <<sessions, session_counter, session_procs, caller, ticks, issued>>
    /\ UNCHANGED evars

(***************************************************************************)
(* The environment of the sessions: their processes and the clock          *)
(***************************************************************************)
\* the process writes its next line to stdout or to stderr
session_process_writes(h) ==
    /\ Running(session_procs, h)
    /\ \/ /\ session_procs[h].pending_out # <<>>
          /\ session_procs' = [session_procs EXCEPT
                ![h].stdout = Append(@, Head(session_procs[h].pending_out)),
                ![h].pending_out = Tail(@)]
       \/ /\ session_procs[h].pending_err # <<>>
          /\ session_procs' = [session_procs EXCEPT
                ![h].stderr = Append(@, Head(session_procs[h].pending_err)),
                ![h].pending_err = Tail(@)]
    /\ UNCHANGED <<sessions, session_counter, session_objects, session_threads,
                   caller, ticks, issued>>
    /\ UNCHANGED evars

\* the process exits, by itself or on a signal
session_process_exits(h) ==
    /\ Running(session_procs, h)
    /\ session_procs[h].program.exits \/ session_procs[h].signal # "none"
    /\ session_procs' = [session_procs EXCEPT ![h].state = "exited"]
    /\ UNCHANGED <<sessions, session_counter, session_objects, session_threads,
                   caller, ticks, issued>>
    /\ UNCHANGED evars

\* the thread has a step to take and is not asleep
ThreadReady(i) ==
    LET thread == session_threads[i]
    IN  /\ thread.pc = "readline"
        /\ \/ ~Running(session_procs, thread.reading)
           \/ /\ thread.target = "_monitor_output"
              /\ session_procs[thread.reading].stdout # <<>>
           \/ /\ thread.target = "_monitor_error"
              /\ session_procs[thread.reading].stderr # <<>>

\* the caller has a step to take and is not asleep
CallerReady ==
    \/ /\ caller.pc = "wait_for_connection"
       /\ \/ QueuesHoldLine(session_objects[caller.obj])
          \/ ~(caller.elapsed < ConnectTimeout)
    \/ /\ caller.pc = "get_output"
       /\ \/ session_objects[caller.obj].output_queue # <<>>
          \/ ~(caller.elapsed < OutputTimeout)
    \/ caller.pc = "close"

\* Time passes.  The clock is coarse: the shortest span it measures is longer
\* than a time.sleep(1), so a thread or a caller in time.sleep(1) goes on at
\* any moment, and longer than the time a thread that has a step to take
\* needs to take it: a monitor that read the clock before an assignment to
\* last_activity has made its check before the clock moves on.
Pass(sizes) ==
    /\ pc = "sessions"
    /\ ticks < MaxTicks
    /\ ~CallerReady
    /\ \A i \in DOMAIN session_threads : ~ThreadReady(i)
    /\ \E d \in sizes :
          /\ session_objects' =
                [o \in DOMAIN session_objects |->
                    [session_objects[o] EXCEPT !.since_activity = @ + d]]
          /\ caller' = IF caller.pc \in {"wait_for_connection", "get_output"}
                       THEN [caller EXCEPT !.elapsed = @ + d]
                       ELSE caller
    /\ session_threads' =
          [i \in DOMAIN session_threads |->
              [session_threads[i] EXCEPT !.raced = FALSE]]
    /\ ticks' = ticks + 1
    /\ UNCHANGED <<sessions, session_counter, session_procs, issued>>
    /\ UNCHANGED evars

Tick == Pass(TickSizes)

\* more than a day passes while no session is running
Day == Pass(DaySizes)

\* a caller creates sessions and removes them again
NextManager ==
    \/ create_session
    \/ close_session
    \/ close
    \/ cleanup_inactive_sessions
    \/ Tick
    \/ Day

SpecManager == InitManager /\ [][NextManager]_vars

\* a caller has created one session and is about to use it
\* create_session(input.command, input.session_type) has returned on a new
\* manager
Created(input) ==
    /\ ManagerIs(create(NewManager, input.command, input.session_type))
    /\ caller = [Returned("create", SessionId(1), "none", SessionId(1))
                 EXCEPT !.arg = <<input.session_type>>]

InitSession ==
    /\ ExecutorConstructed
    /\ command_chain = <<>>
    /\ env \in {[out |-> "text", err |-> "text", fault |-> "none"]}
    /\ pc = "sessions"
    /\ \E input \in CreateInputs : Created(input)

NextSession ==
    \/ start_session
    \/ start_wait_for_connection
    \/ send_to_session
    \/ get_session_output
    \/ get_output
    \/ close_session
    \/ close
    \/ close_terminate
    \/ close_kill
    \/ \E i \in DOMAIN session_threads : monitor_output(i)
    \/ \E i \in DOMAIN session_threads : monitor_error(i)
    \/ \E i \in DOMAIN session_threads : monitor_session(i)
    \/ \E h \in DOMAIN session_procs : session_process_writes(h)
    \/ \E h \in DOMAIN session_procs : session_process_exits(h)
    \/ Tick

SpecSession == InitSession /\ [][NextSession]_vars

\* a step of thread i of the sessions
ThreadStep(i) ==
    /\ i \in DOMAIN session_threads
    /\ monitor_output(i) \/ monitor_error(i) \/ monitor_session(i)

\* every thread of a session is scheduled, a caller inside start() or
\* get_output() wakes up from its time.sleep(0.1), and time passes
FairSpecSession ==
    /\ SpecSession
    /\ \A i \in 1..(3 * MaxSpawns) : WF_vars(ThreadStep(i))
    /\ WF_vars(start_wait_for_connection)
    /\ WF_vars(get_output)
    /\ WF_vars(Tick)

\* a program that prompts and then prints two lines
OutputProgram ==
    Program(PythonCommand, <<PromptLine, FirstLine, SecondLine>>, <<>>,
            FALSE, FALSE, "none")

\* a caller has created a session for OutputProgram and started it: start()
\* has seen the prompt line and has returned True, the program has not
\* written its two lines yet
InitOutput ==
    /\ ExecutorConstructed
    /\ command_chain = <<>>
    /\ env \in {[out |-> "text", err |-> "text", fault |-> "none"]}
    /\ pc = "sessions"
    /\ LET m == create(NewManager, OutputProgram.command, NoType)
           self == ScanOutput([m.session_objects[1] EXCEPT
                                  !.process = 1,
                                  !.session_log =
                                      <<[type |-> "output",
                                         content |-> Strip(PromptLine)]>>],
                              <<PromptLine>>).self
       IN  /\ sessions = m.sessions
           /\ session_counter = m.session_counter
           /\ issued = m.issued
           /\ session_objects = <<[self EXCEPT !.state = "CONNECTED"]>>
           /\ session_procs = <<[Popen(OutputProgram) EXCEPT
                                    !.pending_out = Tail(@)]>>
           /\ session_threads = start_threads(1, 1, {})
    /\ ticks = 0
    /\ caller = Returned("start", SessionId(1), "True", <<>>)

\* the caller reads the output of the session while the program writes
NextOutput ==
    \/ get_session_output
    \/ get_output
    \/ \E i \in DOMAIN session_threads : monitor_output(i)
    \/ \E i \in DOMAIN session_threads : monitor_session(i)
    \/ \E h \in DOMAIN session_procs : session_process_writes(h)
    \/ Tick

SpecOutput == InitOutput /\ [][NextOutput]_vars

\* what create_session is called with when the type of the session matters
TypeInputs ==
    { [command |-> PythonCommand, session_type |-> NoType],
      [command |-> SshCommand, session_type |-> "database"] } \cup
    [command : { <<"s", "s", "h", " ", "m", "y", "s", "q", "l">>,
                 <<"S", "S", "H", " ", "h">>,
                 <<"m", "y", "s", "q", "l">>,
                 <<"p", "s", "q", "l", " ", "p", "y", "t", "h", "o", "n">>,
                 <<"p", "y", "t", "h", "o", "n", " ", "n", "o", "d", "e">>,
                 <<"n", "o", "d", "e", " ", "c", "m", "d">>,
                 <<"p", "o", "w", "e", "r", "s", "h", "e", "l", "l", " ", "c", "m", "d">>,
                 <<"c", "m", "d">> },
     session_type : {NoType}]

\* one session has been created, with or without a type
InitType ==
    /\ ExecutorConstructed
    /\ command_chain = <<>>
    /\ env \in {[out |-> "text", err |-> "text", fault |-> "none"]}
    /\ pc = "sessions"
    /\ \E input \in TypeInputs : Created(input)

SpecType == InitType /\ [][NextSession]_vars

(***************************************************************************)
(* create_session called from two threads at once.  Here caller is the     *)
(* pair of the calling threads; each is at one of the reads and writes of  *)
(* the manager's fields that create_session makes, and the threads take    *)
(* their steps in any order.                                               *)
(***************************************************************************)
Callers == {1, 2}

\* a thread about to call create_session(input.command, input.session_type)
Calling(input) ==
    [pc |-> "load", input |-> input, loaded |-> 0, session_id |-> <<>>,
     ret |-> <<>>]

InitConcurrent ==
    /\ ExecutorConstructed
    /\ command_chain = <<>>
    /\ env \in {[out |-> "text", err |-> "text", fault |-> "none"]}
    /\ pc = "sessions"
    /\ ManagerIs(NewManager)
    /\ \E first, second \in CreateInputs :
          caller = <<Calling(first), Calling(second)>>

\* self.session_counter += 1: the read of the field
create_session_load(t) ==
    /\ caller[t].pc = "load"
    /\ caller' = [caller EXCEPT ![t].pc = "store",
                                ![t].loaded = session_counter]
    /\ UNCHANGED <<sessions, session_counter, session_objects, session_procs,
                   session_threads, ticks, issued>>
    /\ UNCHANGED evars

\* self.session_counter += 1: the write of the field
create_session_store(t) ==
    /\ caller[t].pc = "store"
    /\ session_counter' = caller[t].loaded + 1
    /\ caller' = [caller EXCEPT ![t].pc = "format"]
    /\ UNCHANGED <<sessions, session_objects, session_procs, session_threads,
                   ticks, issued>>
    /\ UNCHANGED evars

\* session_id = f"interactive_{self.session_counter}"
create_session_format(t) ==
    /\ caller[t].pc = "format"
    /\ caller' = [caller EXCEPT ![t].pc = "put",
                                ![t].session_id = SessionId(session_counter)]
    /\ UNCHANGED <<sessions, session_counter, session_objects, session_procs,
                   session_threads, ticks, issued>>
    /\ UNCHANGED evars

\* the rest of create_session: the type, the InteractiveSession, the entry
\* of self.sessions and the return
create_session_put(t) ==
    /\ caller[t].pc = "put"
    /\ LET input == caller[t].input
           session_id == caller[t].session_id
           session_type == IF input.session_type = NoType
                           THEN detect_session_type(input.command)
                           ELSE input.session_type
           session == NewSession(session_id, input.command, session_type)
       IN  /\ session_objects' = Append(session_objects, session)
           /\ sessions' = Put(sessions, session_id, Len(session_objects) + 1)
           /\ issued' = Append(issued, session_id)
           /\ caller' = [caller EXCEPT ![t].pc = "returned",
                                       ![t].ret = session_id]
    /\ UNCHANGED <<session_counter, session_procs, session_threads, ticks>>
    /\ UNCHANGED evars

NextConcurrent ==
    \/ \E t \in Callers : create_session_load(t)
    \/ \E t \in Callers : create_session_store(t)
    \/ \E t \in Callers : create_session_format(t)
    \/ \E t \in Callers : create_session_put(t)

SpecConcurrent == InitConcurrent /\ [][NextConcurrent]_vars

(***************************************************************************)
(* CommandChainExecutor._execute_pipe step by step: the stages are the     *)
(* processes of os_procs, each with the data it still has to write to its  *)
(* stdout and stderr and the data waiting in its two pipes.  Data is       *)
(* counted in units; a pipe of the operating system holds PipeCapacity     *)
(* units, and a write to a full pipe waits until a reader makes room.      *)
(***************************************************************************)
PipeCapacity == 1

\* a stage writes little, or more than a pipe holds
Volumes == {1, PipeCapacity + 1}

Pipelines == { <<"t", "|", "t">>, <<"t", "|", "f">>,
               <<"t", "|", "t", "|", "t">> }

\* subprocess.Popen(cmd, shell=True, stdin=..., stdout=PIPE, stderr=PIPE)
PipePopen(command, out, err) ==
    [command |-> command, state |-> "running", out |-> out, err |-> err,
     stdout |-> 0, stderr |-> 0]

\* a caller is about to pass the pipeline to _execute_pipe
InitPipe ==
    /\ Constructed
    /\ command_chain \in Pipelines
    /\ env \in {[out |-> "text", err |-> "text", fault |-> "none"]}
    /\ pc = "pipe"

LastProcess == Len(os_procs)

\* the stage has read the end of its input
InputClosed(i) ==
    IF i = 1 THEN TRUE
    ELSE os_procs[i - 1].state = "exited" /\ os_procs[i - 1].stdout = 0

\* the loop of _execute_pipe: a Popen for every stage
pipe_Popen ==
    /\ pc = "pipe"
    /\ LET commands == StrippedParts(command_chain, <<"|">>)
       IN  \E out, err \in [1..Len(commands) -> Volumes] :
              os_procs' = [i \in 1..Len(commands) |->
                              PipePopen(commands[i], out[i], err[i])]
    /\ pc' = "communicate"
    /\ UNCHANGED <<command_chain, env, result, trace, command_history,
                   last_exit_code, process_counter, running_processes,
                   monitors, killer, start_ret>>
    /\ UNCHANGED svars

\* stage i writes a unit to its stdout or to its stderr, when the pipe has
\* room for it
stage_writes(i) ==
    /\ pc \in {"communicate", "wait"}
    /\ os_procs[i].state = "running"
    /\ \/ /\ os_procs[i].out > 0
          /\ os_procs[i].stdout < PipeCapacity
          /\ os_procs' = [os_procs EXCEPT ![i].out = @ - 1,
                                          ![i].stdout = @ + 1]
       \/ /\ os_procs[i].err > 0
          /\ os_procs[i].stderr < PipeCapacity
          /\ os_procs' = [os_procs EXCEPT ![i].err = @ - 1,
                                          ![i].stderr = @ + 1]
    /\ UNCHANGED <<command_chain, env, pc, result, trace, command_history,
                   last_exit_code, process_counter, running_processes,
                   monitors, killer, start_ret>>
    /\ UNCHANGED svars

\* stage i reads a unit from its stdin, the stdout of the stage before it
stage_reads(i) ==
    /\ pc \in {"communicate", "wait"}
    /\ i > 1
    /\ os_procs[i].state = "running"
    /\ os_procs[i - 1].stdout > 0
    /\ os_procs' = [os_procs EXCEPT ![i - 1].stdout = @ - 1]
    /\ UNCHANGED <<command_chain, env, pc, result, trace, command_history,
                   last_exit_code, process_counter, running_processes,
                   monitors, killer, start_ret>>
    /\ UNCHANGED svars

\* stage i exits: its input is closed and it has written all it had to write
stage_exits(i) ==
    /\ pc \in {"communicate", "wait"}
    /\ os_procs[i].state = "running"
    /\ InputClosed(i)
    /\ os_procs[i].out = 0 /\ os_procs[i].err = 0
    /\ os_procs' = [os_procs EXCEPT ![i].state = "exited"]
    /\ UNCHANGED <<command_chain, env, pc, result, trace, command_history,
                   last_exit_code, process_counter, running_processes,
                   monitors, killer, start_ret>>
    /\ UNCHANGED svars

\* processes[-1].communicate() reads from the stdout and the stderr of the
\* last stage, the only pipes the caller reads
pipe_communicate_reads ==
    /\ pc = "communicate"
    /\ \/ /\ os_procs[LastProcess].stdout > 0
          /\ os_procs' = [os_procs EXCEPT ![LastProcess].stdout = @ - 1]
       \/ /\ os_procs[LastProcess].stderr > 0
          /\ os_procs' = [os_procs EXCEPT ![LastProcess].stderr = @ - 1]
    /\ UNCHANGED <<command_chain, env, pc, result, trace, command_history,
                   last_exit_code, process_counter, running_processes,
                   monitors, killer, start_ret>>
    /\ UNCHANGED svars

\* processes[-1].communicate() returns: both pipes of the last stage are at
\* their end and the last stage has exited
pipe_communicate ==
    /\ pc = "communicate"
    /\ os_procs[LastProcess].state = "exited"
    /\ os_procs[LastProcess].stdout = 0 /\ os_procs[LastProcess].stderr = 0
    /\ pc' = "wait"
    /\ UNCHANGED <<command_chain, env, result, trace, command_history,
                   last_exit_code, process_counter, running_processes,
                   os_procs, monitors, killer, start_ret>>
    /\ UNCHANGED svars

\* all(p.wait() == 0 for p in processes) and the return of _execute_pipe
pipe_wait ==
    /\ pc = "wait"
    /\ \A i \in DOMAIN os_procs : os_procs[i].state = "exited"
    /\ LET st0 == [success |-> FALSE, output |-> <<>>, blocked |-> FALSE,
                   stages |-> <<>>, proc |-> "none", trace |-> <<>>,
                   last_exit_code |-> last_exit_code,
                   pm |-> [counter |-> process_counter,
                           reg |-> running_processes,
                           procs |-> <<>>, mons |-> monitors]]
           st == execute_pipe(command_chain, st0, env)
       IN  result' = <<st.success, st.output>>
    /\ pc' = "returned"
    /\ UNCHANGED <<command_chain, env, trace, command_history,
                   last_exit_code, process_counter, running_processes,
                   os_procs, monitors, killer, start_ret>>
    /\ UNCHANGED svars

NextPipe ==
    \/ pipe_Popen
    \/ \E i \in DOMAIN os_procs : stage_writes(i)
    \/ \E i \in DOMAIN os_procs : stage_reads(i)
    \/ \E i \in DOMAIN os_procs : stage_exits(i)
    \/ pipe_communicate_reads
    \/ pipe_communicate
    \/ pipe_wait

SpecPipe == InitPipe /\ [][NextPipe]_vars

\* every stage runs on when it can, and so does the caller
FairSpecPipe ==
    /\ SpecPipe
    /\ \A i \in 1..3 :
          /\ WF_vars(i \in DOMAIN os_procs /\ stage_writes(i))
          /\ WF_vars(i \in DOMAIN os_procs /\ stage_reads(i))
          /\ WF_vars(i \in DOMAIN os_procs /\ stage_exits(i))
    /\ WF_vars(pipe_communicate_reads)
    /\ WF_vars(pipe_communicate)
    /\ WF_vars(pipe_wait)

(***************************************************************************)
(* Reading the trace                                                       *)
(***************************************************************************)
Max(S) == CHOOSE x \in S : \A y \in S : x >= y

\* the calls made by call j of the trace, in the order they returned
KidsOf(j) ==
    LET d == trace[j].depth
        earlier == { i \in 1..(j - 1) : trace[i].depth <= d }
        before == IF earlier = {} THEN 0 ELSE Max(earlier)
    IN  SelectSeq(SubSeq(trace, before + 1, j - 1), LAMBDA ev : ev.depth = d + 1)

\* the sub-commands of a chain: the non-empty trimmed texts between the operators
SubCommands(chain, sep) ==
    SelectSeq(StrippedParts(chain, sep), LAMBDA c : c # <<>>)

\* the labeled outputs of a sequence of returned calls, one per line
Labeled(kids) == Join([i \in 1..Len(kids) |-> Label(kids[i].cmd, kids[i].output)])

CallsOfKind(kind) == { j \in 1..Len(trace) : trace[j].kind = kind }

(***************************************************************************)
(* Claims                                                                  *)
(***************************************************************************)

\* C1: in an AND chain the sub-commands run left to right; at the first one
\* that fails the chain returns failure with the labeled outputs gathered so
\* far and the 'chain stopped' marker, and nothing to its right has run; when
\* all succeed the chain returns success with all the labeled outputs.
C1_AndChain ==
    \A j \in CallsOfKind("and") :
        LET cs == SubCommands(trace[j].cmd, <<"&", "&">>)
            kids == KidsOf(j)
            k == Len(kids)
        IN  /\ k <= Len(cs)
            /\ \A i \in 1..k : kids[i].cmd = cs[i]
            /\ \A i \in 1..(k - 1) : kids[i].success
            /\ IF k > 0 /\ ~kids[k].success
               THEN /\ ~trace[j].success
                    /\ trace[j].output =
                          Labeled(kids) \o <<"\n", "(Chain stopped due to failure)">>
               ELSE /\ k = Len(cs)
                    /\ trace[j].success
                    /\ trace[j].output = Labeled(kids)

\* an AND chain [ok, fail, ok] has returned after two sub-commands
C1_Witness ==
    \E j \in CallsOfKind("and") :
        /\ pc = "returned"
        /\ Len(SubCommands(trace[j].cmd, <<"&", "&">>)) = 3
        /\ Len(KidsOf(j)) = 2
        /\ KidsOf(j)[1].success
        /\ ~trace[j].success

\* C2: in an OR chain the sub-commands run left to right; at the first one
\* that succeeds the chain returns success and nothing to its right has run;
\* when none succeeds the chain returns failure with all the attempted
\* labeled outputs and the 'all failed' marker.
C2_OrChain ==
    \A j \in CallsOfKind("or") :
        LET cs == SubCommands(trace[j].cmd, <<"|", "|">>)
            kids == KidsOf(j)
            k == Len(kids)
        IN  /\ k <= Len(cs)
            /\ \A i \in 1..k : kids[i].cmd = cs[i]
            /\ \A i \in 1..(k - 1) : ~kids[i].success
            /\ IF k > 0 /\ kids[k].success
               THEN trace[j].success
               ELSE /\ k = Len(cs)
                    /\ ~trace[j].success
                    /\ trace[j].output =
                          Labeled(kids) \o <<"\n", "(All commands failed)">>

\* an OR chain [fail, ok, fail] has returned after two sub-commands
C2_Witness ==
    \E j \in CallsOfKind("or") :
        /\ pc = "returned"
        /\ Len(SubCommands(trace[j].cmd, <<"|", "|">>)) = 3
        /\ Len(KidsOf(j)) = 2
        /\ ~KidsOf(j)[1].success
        /\ trace[j].success

\* C3: a sequential chain of N sub-commands runs all N whatever their
\* outcomes, returns success, and its output is the N labeled results in
\* left-to-right order.
C3_Sequential ==
    \A j \in CallsOfKind("sequential") :
        LET cs == SubCommands(trace[j].cmd, <<";">>)
            kids == KidsOf(j)
        IN  /\ Len(kids) = Len(cs)
            /\ \A i \in 1..Len(cs) : kids[i].cmd = cs[i]
            /\ trace[j].success
            /\ trace[j].output = Labeled(kids)

\* a sequential chain of three has returned although its first two failed
C3_Witness ==
    \E j \in CallsOfKind("sequential") :
        /\ pc = "returned"
        /\ Len(KidsOf(j)) = 3
        /\ ~KidsOf(j)[1].success
        /\ ~KidsOf(j)[2].success
        /\ KidsOf(j)[3].success

\* the strategies in the order of the dispatch rule, and when each applies
Priority == <<"background", "sequential", "or", "and", "pipe", "single">>

LoneTrailingAmp(c) ==
    /\ Len(c) >= 1
    /\ c[Len(c)] = "&"
    /\ Len(c) = 1 \/ c[Len(c) - 1] # "&"

SpacedTrailingAmp(c) ==
    /\ Len(c) >= 2
    /\ c[Len(c)] = "&"
    /\ c[Len(c) - 1] = " "

Applies(kind, c, trailing(_)) ==
    CASE kind = "background" -> trailing(c)
      [] kind = "sequential" -> \E i \in 1..Len(c) : c[i] = ";"
      [] kind = "or"         -> \E i \in 1..(Len(c) - 1) : c[i] = "|" /\ c[i + 1] = "|"
      [] kind = "and"        -> \E i \in 1..(Len(c) - 1) : c[i] = "&" /\ c[i + 1] = "&"
      [] kind = "pipe"       -> \E i \in 1..Len(c) : c[i] = "|"
      [] OTHER               -> TRUE

FirstApplying(c, trailing(_)) ==
    Priority[Min({ n \in 1..Len(Priority) : Applies(Priority[n], c, trailing) })]

Separator(kind) ==
    CASE kind = "sequential" -> <<";">>
      [] kind = "or"         -> <<"|", "|">>
      [] kind = "and"        -> <<"&", "&">>
      [] OTHER               -> <<"|">>

IsPrefix(s, t) == Len(s) <= Len(t) /\ s = SubSeq(t, 1, Len(s))

\* the sub-calls of call j are made for its sub-commands, from the left
SplitOnOwnOperator(j) ==
    IsPrefix([i \in 1..Len(KidsOf(j)) |-> KidsOf(j)[i].cmd],
             SubCommands(trace[j].cmd, Separator(trace[j].kind)))

\* C4 as stated: every expression, and every sub-expression of a chain or a
\* pipe, is handled by the first strategy that applies in the order
\* background (lone trailing '&'), sequential, OR, AND, pipe, single.
C4_DispatchAsStated ==
    \A j \in 1..Len(trace) :
        /\ trace[j].kind = FirstApplying(trace[j].cmd, LoneTrailingAmp)
        /\ trace[j].kind \in {"sequential", "or", "and"} => SplitOnOwnOperator(j)
        /\ \A n \in 1..Len(trace[j].stages) :
              FirstApplying(trace[j].stages[n], LoneTrailingAmp) = "single"

\* C4 amended: background is selected by a trailing ' &' (a space, then '&');
\* the sub-expressions of sequential, OR and AND chains are dispatched again
\* by the same rule; the stages of a pipe are spawned as they are.
C4_Dispatch ==
    \A j \in 1..Len(trace) :
        /\ trace[j].kind = FirstApplying(trace[j].cmd, SpacedTrailingAmp)
        /\ trace[j].kind \in {"sequential", "or", "and"} => SplitOnOwnOperator(j)
        /\ trace[j].kind = "pipe" =>
              /\ KidsOf(j) = <<>>
              /\ trace[j].stages \in {<<>>, StrippedParts(trace[j].cmd, <<"|">>)}

\* an expression holding '||' and '&&' was split on '||' and its first
\* sub-expression ran as an AND chain
C4_Witness ==
    \E j \in CallsOfKind("or") :
        /\ pc = "returned"
        /\ Contains(trace[j].cmd, <<"&", "&">>)
        /\ Len(KidsOf(j)) >= 1
        /\ KidsOf(j)[1].kind = "and"

\* the single commands that ran to their exit and whose output was captured
RanToExit == { j \in CallsOfKind("single") : env.fault = "none" }

\* C5 as stated: the stdout is taken whenever the captured stdout is non-empty
C5_SingleAsStated ==
    \A j \in RanToExit :
        LET out == Stdout(trace[j].cmd, env)
            err == Stderr(trace[j].cmd, env)
        IN  /\ trace[j].success <=> ExitCode(trace[j].cmd) = 0
            /\ trace[j].output = IF out # <<>> THEN Strip(out) ELSE Strip(err)

\* C5 amended: a single command that has exited succeeds exactly when its
\* exit code is 0; the output is the trimmed stdout when the trimmed stdout
\* is non-empty, and the trimmed stderr otherwise.
C5_Single ==
    \A j \in RanToExit :
        LET out == Stdout(trace[j].cmd, env)
            err == Stderr(trace[j].cmd, env)
        IN  /\ trace[j].success <=> ExitCode(trace[j].cmd) = 0
            /\ trace[j].output = IF Strip(out) # <<>> THEN Strip(out) ELSE Strip(err)

\* a command that printed a blank stdout and a stderr exited with 0, and
\* the stderr was returned
C5_Witness ==
    \E j \in RanToExit :
        /\ pc = "returned"
        /\ trace[j].success
        /\ Stdout(trace[j].cmd, env) = <<"\n">>
        /\ trace[j].output = <<"E", "t">>

Failed == { j \in RanToExit : ExitCode(trace[j].cmd) # 0 }

\* C6 as stated: after a nonzero exit the output is the stderr, and the
\* stdout only when the stderr is empty
C6_FailureAsStated ==
    \A j \in Failed :
        LET out == Stdout(trace[j].cmd, env)
            err == Stderr(trace[j].cmd, env)
        IN  /\ err # <<>> => trace[j].output = Strip(err)
            /\ err = <<>> => trace[j].output = Strip(out)

\* C6 amended: after a nonzero exit the result is a failure whose output is
\* the trimmed stdout, and the trimmed stderr only when the stdout is empty
\* or blank.
C6_Failure ==
    \A j \in Failed :
        LET out == Stdout(trace[j].cmd, env)
            err == Stderr(trace[j].cmd, env)
        IN  /\ ~trace[j].success
            /\ Strip(out) # <<>> => trace[j].output = Strip(out)
            /\ Strip(out) = <<>> => trace[j].output = Strip(err)

\* a command that printed to both streams exited with 1 and its stdout
\* was returned
C6_Witness ==
    \E j \in Failed :
        /\ pc = "returned"
        /\ env.out = "text" /\ env.err = "text"
        /\ trace[j].output = <<"f">>

\* C7: a single command that has not exited within the 30 seconds returns
\* failure with the 'timed out' message, and its process is not running
\* when the call returns.
C7_Timeout ==
    \A j \in CallsOfKind("single") :
        env.fault = "hang" =>
            /\ ~trace[j].success
            /\ trace[j].output = <<"Command timed out after 30 seconds">>
            /\ trace[j].proc # "running"

\* a single command that never exits was the whole expression, and the
\* call has returned
C7_Witness ==
    /\ pc = "returned"
    /\ env.fault = "hang"
    /\ Len(trace) = 1
    /\ trace[1].kind = "single"
    /\ result = <<FALSE, <<"Command timed out after 30 seconds">>>>

\* the pipes whose stages all exited and whose output was captured
PipesRun == { j \in CallsOfKind("pipe") : env.fault = "none" }

AllStagesExitZero(j) ==
    LET stages == StrippedParts(trace[j].cmd, <<"|">>)
    IN  \A n \in 1..Len(stages) : ExitCode(stages[n]) = 0

LastStage(j) ==
    LET stages == StrippedParts(trace[j].cmd, <<"|">>) IN stages[Len(stages)]

\* C8 as stated: the output is the last stage's stdout when the pipe
\* succeeds and its stderr when the pipe fails
C8_PipeAsStated ==
    \A j \in PipesRun :
        /\ trace[j].success <=> AllStagesExitZero(j)
        /\ trace[j].output = IF trace[j].success
                             THEN Strip(Stdout(LastStage(j), env))
                             ELSE Strip(Stderr(LastStage(j), env))

\* C8 amended: a pipe succeeds exactly when all its stages exit with 0; the
\* output is the last stage's trimmed stdout when that stdout is non-empty
\* and the last stage's trimmed stderr otherwise, whether the pipe succeeds
\* or fails.
C8_Pipe ==
    \A j \in PipesRun :
        /\ trace[j].success <=> AllStagesExitZero(j)
        /\ trace[j].output = IF Stdout(LastStage(j), env) # <<>>
                             THEN Strip(Stdout(LastStage(j), env))
                             ELSE Strip(Stderr(LastStage(j), env))

\* a pipe whose first stage exited with 1 and whose last stage exited with
\* 0 has failed and returned the last stage's stdout
C8_Witness ==
    \E j \in PipesRun :
        /\ pc = "returned"
        /\ trace[j].stages = << <<"f">>, <<"t">> >>
        /\ ~trace[j].success
        /\ trace[j].output = <<"t">>

\* C9: an expression ending in ' &' is started through the Process Manager
\* with the '&' stripped; the call returns success with the new identifier
\* while the process is still running, and the status of that identifier
\* right after the return is 'running'.
C9_Background ==
    [][ (pc = "call" /\ pc' = "returned"
            /\ SpacedTrailingAmp(Strip(command_chain)))
        => LET chain == Strip(command_chain)
               id == BgId(process_counter + 1)
           IN  /\ result' = <<TRUE, <<"Started background process: ">> \o id>>
               /\ id \notin DOMAIN running_processes
               /\ id \in DOMAIN running_processes'
               /\ running_processes'[id].command
                     = Strip(SubSeq(chain, 1, Len(chain) - 1))
               /\ get_process_status(running_processes', id).status = "running"
               /\ os_procs'[running_processes'[id].process].state = "running" ]_vars

Terminal == {"completed", "failed", "killed", "error"}

HasExited(h) == h \in DOMAIN os_procs /\ os_procs[h].state = "exited"

\* what a status query answers for the identifier process h was started under
StatusOf(h) == get_process_status(running_processes, monitors[h].process_id)

\* a status query for the identifier of the exited process h reports a
\* terminal status
ReportedTerminal(h) ==
    /\ HasExited(h)
    /\ h \in DOMAIN monitors
    /\ StatusOf(h).status \in Terminal

\* C10 as stated: for every background process that exits, a status query
\* eventually reports a terminal status with the captured stdout and stderr
C10_CompletionAsStated ==
    \A h \in 1..MaxProcs :
        <>HasExited(h) => <>(/\ ReportedTerminal(h)
                             /\ StatusOf(h).stdout # Absent
                             /\ StatusOf(h).stderr # Absent)

\* C10 amended: for every background process that exits, a status query
\* eventually reports a terminal status; the record then holds the captured
\* stdout and stderr, or, when reading the output raised, the error text.
C10_Completion ==
    \A h \in 1..MaxProcs :
        <>HasExited(h) => <>(/\ ReportedTerminal(h)
                             /\ \/ /\ StatusOf(h).stdout # Absent
                                   /\ StatusOf(h).stderr # Absent
                                \/ StatusOf(h).error # Absent)

\* a background process has exited with 0 and its record says 'completed'
\* and holds what it printed
C10_Witness ==
    \E h \in DOMAIN os_procs :
        /\ HasExited(h)
        /\ monitors[h].pc = "done"
        /\ StatusOf(h).status = "completed"
        /\ StatusOf(h).return_code = <<0>>
        /\ StatusOf(h).stdout = <<" ", "t", "\n">>
        /\ StatusOf(h).stderr = <<"E", "t", "\n">>

(***************************************************************************)
(* C11..C16: killing, faults and identifiers of background processes       *)
(***************************************************************************)
\* the last kill_process call has returned
KillReturned == killer.pc = "idle" /\ killer.ret # "none"

\* the registry still holds, under the killed identifier, the process that
\* the last kill_process call was about
KilledStillRegistered ==
    /\ killer.id \in DOMAIN running_processes
    /\ running_processes[killer.id].process = killer.process

\* C11: kill(id) on a background process that is still running returns true
\* and from then on the status of id is 'killed', however the steps of the
\* process's monitor interleave with it; kill(id) on an identifier that is
\* not in the registry returns false and leaves the registry unchanged
C11_Kill ==
    /\ []( (KillReturned /\ killer.polled = "running" /\ KilledStillRegistered)
             => /\ killer.ret = "True"
                /\ get_process_status(running_processes, killer.id).status
                      = "killed" )
    /\ [][ (killer.pc = "idle" /\ killer' # killer
              /\ killer'.id \notin DOMAIN running_processes)
           => /\ killer'.ret = "False"
              /\ killer'.pc = "idle"
              /\ running_processes' = running_processes ]_vars

\* C12: kill(id) on a process whose status is already terminal returns true
\* and leaves every field of the record, the status included, as it was
C12_KillIdempotent ==
    [][ (killer.pc = "idle" /\ killer' # killer
           /\ killer'.id \in DOMAIN running_processes
           /\ running_processes[killer'.id].status \in Terminal)
        => /\ running_processes' = running_processes
           /\ killer'.pc = "idle" => killer'.ret = "True" ]_vars

\* the calls of the strategies that create processes themselves
LeafCalls == CallsOfKind("single") \cup CallsOfKind("pipe")
                \cup CallsOfKind("background")

\* the calls in which an exception was raised and caught: a process that
\* could not be created, a timeout, output that could not be decoded
Faulted ==
    { j \in LeafCalls :
        \/ env.fault = "spawn_error"
        \/ env.fault = "hang" /\ trace[j].kind = "single"
        \/ env.fault = "undecodable" /\ trace[j].kind \in {"single", "pipe"} }

\* C13: every call of the chain executor returns a value, and every call in
\* which a fault occurred reports it as success = false with a message
C13_NoUnhandledFaults ==
    pc = "returned" =>
        /\ result \in BOOLEAN \X {result[2]}
        /\ \A j \in Faulted : /\ ~trace[j].success
                              /\ trace[j].output # <<>>

\* C14: whenever the operating system cannot create the process, every
\* strategy, background execution included, reports success = false with the
\* error text in its output, and no entry of the registry says 'running'
C14_SpawnFailure ==
    (pc = "returned" /\ env.fault = "spawn_error") =>
        /\ \A j \in LeafCalls : /\ ~trace[j].success
                                /\ Contains(trace[j].output, <<ErrText>>)
        /\ \A id \in DOMAIN running_processes :
              running_processes[id].status # "running"

\* C16: no start stores its process under an identifier that an earlier start
\* used: an entry of the registry is never replaced by a later start
C16_UniqueIds ==
    [][ \A id \in DOMAIN running_processes :
           /\ id \in DOMAIN running_processes'
           /\ running_processes'[id].process = running_processes[id].process
      ]_vars

(***************************************************************************)
(* C15, C17..C20: interactive sessions                                     *)
(***************************************************************************)
\* the number in an identifier of a session
IdNumber(id) == CHOOSE n \in 1..(MaxSessions + 1) : SessionId(n) = id

\* C15: over any sequence of create, close and cleanup calls, every create
\* returns an identifier that is different from and strictly newer than every
\* identifier returned before, also when earlier sessions have been removed
C15_FreshIds ==
    \A i \in DOMAIN issued, j \in DOMAIN issued :
        i < j => /\ issued[i] # issued[j]
                 /\ IdNumber(issued[i]) < IdNumber(issued[j])

\* a session was created after the session created before it was removed
C15_Witness ==
    /\ Len(issued) = 2
    /\ caller.op = "create" /\ caller.value = issued[2]
    /\ issued[1] \notin DOMAIN sessions
    /\ issued[2] \in DOMAIN sessions

\* a call of start on a registered session returns in this step
StartReturns ==
    /\ start_session \/ start_wait_for_connection
    /\ caller'.pc = "idle"
    /\ caller'.id \in DOMAIN sessions

\* the lines the step takes from the queue
Taken(before, after) == SubSeq(before, 1, Len(before) - Len(after))

\* the line matches a success pattern or a prompt pattern of the session
Connects(self, line) ==
    \/ SearchAny(get_connection_patterns.success, Lower(line))
    \/ SearchAny(get_prompt_patterns(self.session_type), line)

\* the line matches a failure pattern
Refuses(line) == SearchAny(get_connection_patterns.failure, Lower(line))

\* C17: start() returns true exactly when it leaves the session CONNECTED,
\* and that is when the line it has just seen, before the connect timeout,
\* matches a success pattern or the prompt pattern of the session's type; it
\* returns false and leaves the session in ERROR when the line it has just
\* seen matches a failure pattern, when the timeout has expired with no
\* match, or when the process could not be created
C17_StartOutcome ==
    [][ StartReturns =>
          LET o == sessions[caller'.id]
              before == session_objects[o]
              after == session_objects'[o]
              out == Taken(before.output_queue, after.output_queue)
              err == Taken(before.error_queue, after.error_queue)
          IN  /\ caller'.ret = "True" <=> after.state = "CONNECTED"
              /\ caller'.ret = "False" <=> after.state = "ERROR"
              /\ caller'.ret = "True" <=>
                    /\ caller.pc = "wait_for_connection"
                    /\ caller.elapsed < ConnectTimeout
                    /\ out # <<>>
                    /\ Connects(before, out[Len(out)])
                    /\ \A i \in 1..(Len(out) - 1) :
                          ~Connects(before, out[i]) /\ ~Refuses(out[i])
              /\ caller'.ret = "False" =>
                    \/ caller.pc = "idle" /\ after.last_error = <<ErrText>>
                    \/ ~(caller.elapsed < ConnectTimeout)
                    \/ out # <<>> /\ Refuses(out[Len(out)])
                    \/ err # <<>> /\ Refuses(err[Len(err)]) ]_vars

\* start() has returned true on a prompt line and the session is CONNECTED
C17_Witness ==
    /\ caller.pc = "idle" /\ caller.op = "start" /\ caller.ret = "True"
    /\ caller.id \in DOMAIN sessions
    /\ session_objects[sessions[caller.id]].state = "CONNECTED"
    /\ session_objects[sessions[caller.id]].last_prompt = PromptLine

\* the program writes, as soon as it starts, a stdout line that matches the
\* prompt pattern of the session
PromptsAtOnce(self, program) ==
    /\ program.eager
    /\ program.out # <<>>
    /\ SearchAny(get_prompt_patterns(self.session_type), program.out[1])

\* C18: start() on a session whose program writes a prompt line as soon as it
\* starts ends, within the connect timeout, with the session CONNECTED,
\* whether the program keeps running or exits right after writing the line
C18_ConnectLiveness ==
    [][ (StartReturns /\ caller.pc = "wait_for_connection")
        => LET self == session_objects'[sessions[caller'.id]]
           IN  PromptsAtOnce(self, session_procs[self.process].program)
               => /\ caller'.ret = "True"
                  /\ self.state = "CONNECTED"
                  /\ caller.elapsed < ConnectTimeout ]_vars

\* the states a session never leaves, as the lifecycle is described
Final == {"DISCONNECTED", "ERROR"}

\* C19: once the state of a session is DISCONNECTED or ERROR it never becomes
\* IDLE, CONNECTING or CONNECTED again
C19_TerminalStates ==
    [][ \A o \in DOMAIN session_objects :
           session_objects[o].state \in Final
           => session_objects'[o].state \in Final ]_vars

\* a call of send on a registered session returns in this step
SendReturns ==
    /\ send_to_session
    /\ caller'.id \in DOMAIN sessions

\* C20: send_input(text) writes to the process and returns true only when the
\* session is CONNECTED; in every other state it returns false and leaves
\* the command history, the time of the last activity and the input of the
\* process as they were; when it returns true it has appended one entry for
\* text to the command history and has set the time of the last activity
C20_SendGuard ==
    [][ SendReturns =>
          LET o == sessions[caller'.id]
              before == session_objects[o]
              after == session_objects'[o]
              text == caller'.value
          IN  /\ caller'.ret \in {"True", "False"}
              /\ caller'.ret = "True" => before.state = "CONNECTED"
              /\ before.state # "CONNECTED" =>
                    /\ caller'.ret = "False"
                    /\ after.command_history = before.command_history
                    /\ after.since_activity = before.since_activity
                    /\ session_procs' = session_procs
              /\ caller'.ret = "True" =>
                    /\ after.command_history
                          = Append(before.command_history, text)
                    /\ after.since_activity = 0
                    /\ session_procs'[before.process].stdin
                          = Append(session_procs[before.process].stdin,
                                   text \o <<"\n">>)
              /\ caller'.ret = "False" =>
                    /\ after.command_history = before.command_history
                    /\ session_procs' = session_procs ]_vars

\* a send has returned true after some time without activity: the line is in
\* the history and in the input of the process, the time of the last
\* activity is now
C20_Witness ==
    /\ caller.pc = "idle" /\ caller.op = "send" /\ caller.ret = "True"
    /\ ticks > 0
    /\ caller.id \in DOMAIN sessions
    /\ LET self == session_objects[sessions[caller.id]]
       IN  /\ self.command_history = <<caller.value>>
           /\ self.since_activity = 0
           /\ session_procs[self.process].stdin = <<caller.value \o <<"\n">>>>

(***************************************************************************)
(* C21..C24: closing sessions, unknown identifiers, cleanup                *)
(***************************************************************************)
\* the session objects close_session has closed and removed
Closed ==
    { o \in DOMAIN session_objects :
         /\ \A id \in DOMAIN sessions : sessions[id] # o
         /\ ~(caller.pc \in {"close", "close_sleep", "close_sleep_again"}
              /\ caller.obj = o) }

\* C21: after close() has returned the state of the session is DISCONNECTED,
\* for every state the session was in when close() was called, whether or
\* not the exit phrase could be sent, and in every interleaving with a
\* transition the liveness monitor makes at the same time
C21_CloseDisconnects ==
    \A o \in Closed : session_objects[o].state = "DISCONNECTED"

\* close() has returned on a session that was started: the exit phrase was
\* sent, the process did not exit on it and was terminated, and the monitor
\* of the session has made its last transition
C21_Witness ==
    \E o \in Closed :
        LET self == session_objects[o]
        IN  /\ caller.pc = "idle" /\ caller.op = "close"
            /\ caller.ret = "True"
            /\ self.process # 0
            /\ session_procs[self.process].stdin # <<>>
            /\ session_procs[self.process].signal = "TERM"
            /\ self.state = "DISCONNECTED"
            /\ \E i \in DOMAIN session_threads :
                  /\ session_threads[i].obj = o
                  /\ session_threads[i].target = "_monitor_session"
                  /\ session_threads[i].pc = "done"

\* close_session on a registered identifier returns in this step
CloseSessionReturns ==
    /\ close \/ close_terminate \/ close_kill
    /\ caller.op = "close"
    /\ caller'.pc = "idle"

\* C22: after close(id) on a registered id, id does not appear in list() and
\* status(id) reports not-found, whatever closing the session gave; every
\* other registered session stays registered, is the same session and has
\* the state it had
C22_ManagerClose ==
    [][ CloseSessionReturns =>
          /\ caller.id \in DOMAIN sessions
          /\ caller.id \notin DOMAIN sessions'
          /\ get_session_status(caller.id)' = [state |-> "None"]
          /\ \A i \in DOMAIN list_sessions' :
                list_sessions'[i].session_id # caller.id
          /\ \A other \in DOMAIN sessions \ {caller.id} :
                /\ other \in DOMAIN sessions'
                /\ sessions'[other] = sessions[other]
                /\ session_objects'[sessions[other]].state
                      = session_objects[sessions[other]].state
                /\ \E i \in DOMAIN list_sessions' :
                      list_sessions'[i].session_id = other ]_vars

\* one of two registered sessions has been closed, the other is listed
C22_Witness ==
    /\ caller.pc = "idle" /\ caller.op = "close" /\ caller.ret = "True"
    /\ Len(issued) = 2
    /\ caller.id \notin DOMAIN sessions
    /\ Len(list_sessions) = 1
    /\ list_sessions[1].session_id # caller.id

\* a call of start, send, output or close with an identifier that is not in
\* the registry
UnknownIdCall ==
    /\ start_session \/ send_to_session \/ get_session_output \/ close_session
    /\ caller'.id \notin DOMAIN sessions

\* what the operation returns for an identifier it does not find
NotFound(op) ==
    CASE op = "start" -> [ret |-> "False", value |-> <<>>]
      [] op = "send" -> [ret |-> "False", value |-> caller'.value]
      [] op = "output" -> [ret |-> "none", value |-> <<>>]
      [] op = "close" -> [ret |-> "False", value |-> <<>>]

\* C23: for an identifier that is not in the registry, start, send, output
\* and close return at once with false, false, the empty list and false, and
\* status answers none; nothing is raised and the registry, the sessions,
\* their processes and their threads are left as they were
C23_UnknownIds ==
    /\ [](\A id \in SessionIds \ DOMAIN sessions :
             get_session_status(id) = [state |-> "None"])
    /\ [][ UnknownIdCall =>
             /\ caller'.pc = "idle"
             /\ caller'.ret = NotFound(caller'.op).ret
             /\ caller'.value = NotFound(caller'.op).value
             /\ UNCHANGED <<sessions, session_counter, session_objects,
                            session_procs, session_threads>> ]_vars

\* start has been called with the identifier of a session that was closed
\* and removed, and has returned false
C23_Witness ==
    /\ caller.pc = "idle" /\ caller.op = "start" /\ caller.ret = "False"
    /\ caller.id \in SessionIds \ DOMAIN sessions
    /\ get_session_status(caller.id) = [state |-> "None"]

\* the elements of a sequence
Range(seq) == { seq[i] : i \in DOMAIN seq }

\* the sessions the running call of cleanup_inactive_sessions has set out to
\* close and has not closed yet
ToClose(c) == IF c.pc = "idle" THEN {} ELSE {c.id} \cup Range(c.todo)

\* the registered sessions whose last activity is more than t seconds ago
IdleFor(t) ==
    { id \in DOMAIN sessions :
         session_objects[sessions[id]].since_activity > t }

\* C24: cleanup_idle(t) removes from the registry exactly the sessions whose
\* time since the last activity exceeds t seconds, however long they have
\* been idle, returns the number of sessions it removed and leaves every
\* other session registered
C24_IdleCleanup ==
    [][ /\ cleanup_inactive_sessions
           => LET t == caller'.arg[1]
              IN  /\ ToClose(caller') = IdleFor(t)
                  /\ caller'.value = <<Cardinality(IdleFor(t))>>
        /\ (caller.op = "cleanup" /\ close)
           => /\ DOMAIN sessions' = DOMAIN sessions \ {caller.id}
              /\ ToClose(caller') = ToClose(caller) \ {caller.id}
              /\ caller'.value = caller.value ]_vars

(***************************************************************************)
(* C25: ordering inside a chain                                            *)
(***************************************************************************)
Chains == CallsOfKind("sequential") \cup CallsOfKind("and") \cup CallsOfKind("or")

\* the process a returned call has left running: the process a background
\* call has started and that has not exited, or the child a single command
\* has not reaped
StillRunning(ev) ==
    \/ /\ ev.kind = "background"
       /\ Tail(ev.output) \in DOMAIN running_processes
       /\ os_procs[running_processes[Tail(ev.output)].process].state = "running"
    \/ ev.proc = "running"

\* a sub-command of a chain is still running after a sub-command to its
\* right was started
Overlapping ==
    \E j \in Chains :
        LET kids == KidsOf(j)
        IN  \E i \in 1..(Len(kids) - 1) : StillRunning(kids[i])

IsOutput(entry) == entry.type = "output"

LinesRead(self) ==
    LET read == SelectSeq(self.session_log, IsOutput)
    IN  [i \in DOMAIN read |-> read[i].content]

\* the stdout queue holds the lines read last, in the order they were read
QueueInReadOrder(self) ==
    /\ Len(self.output_queue) <= Len(LinesRead(self))
    /\ [i \in DOMAIN self.output_queue |-> Strip(self.output_queue[i])]
          = SubSeq(LinesRead(self),
                   Len(LinesRead(self)) - Len(self.output_queue) + 1,
                   Len(LinesRead(self)))

\* a call of get_output on a registered session goes on in this step
GetOutputSteps ==
    /\ get_session_output \/ get_output
    /\ caller'.id \in DOMAIN sessions

\* C26: the stdout lines successive get_output calls return are in the order
\* the reader read them and no line is returned twice: the queue holds the
\* lines read and not yet taken in the order they were read, and a call
\* returns the lines of the queue from its head and takes them out.  A call
\* returns as soon as the queue holds a line, and returns the empty list
\* when the queue has stayed empty until the timeout.
C26_OutputOrder ==
    /\ [](\A o \in DOMAIN session_objects :
             QueueInReadOrder(session_objects[o]))
    /\ [][ GetOutputSteps =>
             LET o == sessions[caller'.id]
                 before == session_objects[o].output_queue
                 after == session_objects'[o].output_queue
                 over == caller.pc = "get_output"
                            /\ ~(caller.elapsed < OutputTimeout)
             IN  IF over
                 THEN /\ caller'.pc = "idle" /\ caller'.value = <<>>
                      /\ after = before
                 ELSE IF before # <<>>
                 THEN /\ caller'.pc = "idle" /\ caller'.value = before
                      /\ after = <<>>
                 ELSE /\ caller'.pc = "get_output"
                      /\ after = before ]_vars

\* the second of two calls of get_output has returned the second line: the
\* first call returned the first line as soon as it was there
C26_Witness ==
    /\ caller.pc = "idle" /\ caller.op = "output"
    /\ caller.value = <<SecondLine>>
    /\ session_objects[1].output_queue = <<>>
    /\ LinesRead(session_objects[1])
          = <<Strip(PromptLine), Strip(FirstLine), Strip(SecondLine)>>

\* start() returns false in this step because the connect timeout has
\* expired with no matching line
StartTimesOut ==
    /\ StartReturns
    /\ caller.pc = "wait_for_connection"
    /\ ~(caller.elapsed < ConnectTimeout)
    /\ caller'.ret = "False"

\* C27: when start() fails because the connect timeout expired with no
\* matching line, the process the session spawned is no longer running, and
\* has been sent a signal, when start() returns false
C27_ConnectTimeoutKills ==
    [][ StartTimesOut =>
          LET self == session_objects'[sessions[caller'.id]]
          IN  /\ ~Running(session_procs', self.process)
              /\ session_procs'[self.process].signal # "none" ]_vars

\* the monitor thread i makes its check of session o in this step, the
\* session being CONNECTED with a live process
MonitorChecks(i, o) ==
    /\ monitor_session(i)
    /\ session_threads[i].obj = o
    /\ session_objects[o].state = "CONNECTED"
    /\ session_objects[o].process # 0
    /\ Running(session_procs, session_objects[o].process)

\* C29: the check the monitor makes of a CONNECTED session with a live
\* process moves the session to DISCONNECTED with reason 'timeout' when the
\* last activity (input sent, stdout or stderr line read) is more than 300
\* seconds old, and leaves the state of the session as it is when there was
\* activity in the last 300 seconds
C29_IdleTimeout ==
    [][ \A i \in DOMAIN session_threads : \A o \in DOMAIN session_objects :
          MonitorChecks(i, o) =>
             IF session_objects[o].since_activity > IdleTimeout
             THEN /\ session_objects'[o].state = "DISCONNECTED"
                  /\ session_objects'[o].disconnect_reason = "timeout"
             ELSE session_objects'[o].state = "CONNECTED" ]_vars

\* the members of SessionState that are assigned somewhere
Entered == {"IDLE", "CONNECTING", "CONNECTED", "DISCONNECTED", "ERROR"}

\* C30: in every reachable state the state of every session is one of IDLE,
\* CONNECTING, CONNECTED, DISCONNECTED and ERROR, never EXECUTING
C30_NeverExecuting ==
    \A o \in DOMAIN session_objects : session_objects[o].state \in Entered

\* a session is CONNECTED, not EXECUTING, while the input sent to it is with
\* its running process and has not been answered
C30_Witness ==
    \E o \in DOMAIN session_objects :
        /\ session_objects[o].state = "CONNECTED"
        /\ session_objects[o].command_history # <<>>
        /\ session_objects[o].output_queue = <<>>
        /\ Running(session_procs, session_objects[o].process)
        /\ session_procs[session_objects[o].process].stdin # <<>>

\* the process of session o has exited while the session is CONNECTING or
\* CONNECTED
ExitedWhileLive(o) ==
    /\ o \in DOMAIN session_objects
    /\ session_objects[o].state \in Live
    /\ session_objects[o].process # 0
    /\ ~Running(session_procs, session_objects[o].process)

\* session o is DISCONNECTED or in ERROR
Ended(o) ==
    /\ o \in DOMAIN session_objects
    /\ session_objects[o].state \in Final

\* C28: whenever the process of a session has exited while the session is
\* CONNECTING or CONNECTED, the session eventually is DISCONNECTED or in
\* ERROR: it does not stay CONNECTED forever with an exited process
C28_ExitDetected ==
    \A o \in 1..MaxSessions : ExitedWhileLive(o) ~> Ended(o)

(***************************************************************************)
(* C31..C40                                                                *)
(***************************************************************************)
\* the record holds a return code
HasReturnCode(rec) == ToString(rec.return_code) # ToString(Absent)

\* the fields the monitor stores with 'completed' or 'failed' are all set
ResultStored(rec) ==
    /\ HasReturnCode(rec)
    /\ rec.stdout # Absent
    /\ rec.stderr # Absent
    /\ rec.end_time

\* none of the fields the monitor stores is set
NothingStored(rec) ==
    /\ ~HasReturnCode(rec)
    /\ rec.stdout = Absent
    /\ rec.stderr = Absent
    /\ ~rec.end_time

\* C31: in every reachable state of the process registry a record with
\* status 'completed' or 'failed' is the record of a process that has
\* exited, it is 'completed' exactly when the exit code stored is 0, and the
\* return code, the captured stdout and stderr and the end time are stored
\* with it; a record with status 'running' holds none of them
C31_RecordConsistency ==
    \A id \in DOMAIN running_processes :
        LET rec == running_processes[id]
        IN  /\ rec.status \in {"completed", "failed"} =>
                 /\ os_procs[rec.process].state = "exited"
                 /\ ResultStored(rec)
                 /\ rec.status = "completed" <=> rec.return_code[1] = 0
            /\ rec.status = "running" => NothingStored(rec)

\* C32: an identifier that is in the process registry stays in it: no start,
\* no kill, no monitor thread and no exit of a process removes an entry
C32_NoEviction ==
    [][DOMAIN running_processes \subseteq DOMAIN running_processes']_vars

\* two processes were started, the first has been killed and its monitor
\* has stored its result, and both identifiers are registered
C32_Witness ==
    /\ DOMAIN running_processes = {BgId(1), BgId(2)}
    /\ killer.pc = "idle" /\ killer.ret = "True" /\ killer.id = BgId(1)
    /\ killer.polled = "running"
    /\ monitors[running_processes[BgId(1)].process].pc = "done"
    /\ running_processes[BgId(2)].status = "running"

\* the threads started for session o with the target
ThreadsOf(o, target) ==
    { i \in DOMAIN session_threads :
         session_threads[i].obj = o /\ session_threads[i].target = target }

\* the processes spawned for session o: each start() that spawns a process
\* starts one liveness monitor
SpawnedFor(o) == Cardinality(ThreadsOf(o, "_monitor_session"))

\* C33: start() moves a session to CONNECTING only from IDLE, and over any
\* sequence of start calls at most one process is spawned for a session and
\* at most one stdout reader, one stderr reader and one liveness monitor
\* exist for it
C33_OneProcess ==
    /\ [](\A o \in DOMAIN session_objects :
             /\ SpawnedFor(o) <= 1
             /\ \A target \in Readers :
                   Cardinality(ThreadsOf(o, target)) <= 1)
    /\ [][ \A o \in DOMAIN session_objects :
              (start_session /\ session_objects'[o].state = "CONNECTING")
              => session_objects[o].state = "IDLE" ]_vars

\* C34: pipe execution returns only after every stage has exited, and it
\* does return for every pipeline whose stages exit once their input is
\* closed and their output is consumed, whatever amount of data a stage
\* writes to its stdout or stderr
C34_PipeTermination ==
    /\ [](pc = "returned" =>
             \A i \in DOMAIN os_procs : os_procs[i].state = "exited")
    /\ <>(pc = "returned")

\* what a line decides in _wait_for_connection as the claim describes it:
\* "True" for a success pattern, "False" for a failure pattern, "True" for
\* a prompt pattern of the session's type, "none" when nothing matches
Decision(self, line) ==
    IF SearchAny(get_connection_patterns.success, Lower(line)) THEN "True"
    ELSE IF Refuses(line) THEN "False"
    ELSE IF SearchAny(get_prompt_patterns(self.session_type), line)
    THEN "True"
    ELSE "none"

\* C35: during start(), the first line on stdout or stderr that matches a
\* success pattern, a failure pattern or the prompt pattern of the session's
\* type decides the outcome: the pass of _wait_for_connection that takes
\* such a line from either queue returns, true for a success or prompt line
\* and false for a failure line, on stderr just as on stdout
C35_BothStreams ==
    [][ (start_wait_for_connection /\ caller.elapsed < ConnectTimeout) =>
          LET before == session_objects[caller.obj]
              after == session_objects'[caller.obj]
              out == Taken(before.output_queue, after.output_queue)
              err == Taken(before.error_queue, after.error_queue)
              lines == out \o err
              deciding == { i \in DOMAIN lines :
                               Decision(before, lines[i]) # "none" }
          IN  deciding # {} =>
                 /\ caller'.pc = "idle"
                 /\ caller'.ret = Decision(before, lines[Min(deciding)]) ]_vars

\* the keyword classes in the order in which they are looked for
Classes ==
    << [type |-> "ssh", words |-> { <<"s", "s", "h">> }],
       [type |-> "database",
        words |-> { <<"m", "y", "s", "q", "l">>, <<"p", "s", "q", "l">>,
                    <<"s", "q", "l", "i", "t", "e">>, <<"m", "o", "n", "g", "o">> }],
       [type |-> "python", words |-> { <<"p", "y", "t", "h", "o", "n">> }],
       [type |-> "node", words |-> { <<"n", "o", "d", "e">> }],
       [type |-> "powershell",
        words |-> { <<"p", "o", "w", "e", "r", "s", "h", "e", "l", "l">> }],
       [type |-> "cmd", words |-> { <<"c", "m", "d">> }] >>

\* the type of the first keyword class one of whose words is in the command
Selected(command) ==
    LET hits == { i \in DOMAIN Classes :
                     \E w \in Classes[i].words : Contains(Lower(command), w) }
    IN  IF hits = {} THEN "generic" ELSE Classes[Min(hits)].type

\* the phrase that ends a session of the type
ExitPhrase(session_type) ==
    CASE session_type = "database" -> <<"q", "u", "i", "t">>
      [] session_type = "python" -> <<"e", "x", "i", "t", "(", ")">>
      [] session_type = "node" -> <<".", "e", "x", "i", "t">>
      [] OTHER -> <<"e", "x", "i", "t">>

C37_ConcurrentCreate ==
    (\A t \in Callers : caller[t].pc = "returned") =>
        /\ caller[1].ret # caller[2].ret
        /\ \A t \in Callers : caller[t].ret \in DOMAIN sessions
        /\ sessions[caller[1].ret] # sessions[caller[2].ret]
        /\ \A o \in DOMAIN session_objects :
              \E id \in DOMAIN sessions : sessions[id] = o

\* the result stored in the record is the result of process p
ResultOf(rec, p) ==
    /\ p.state = "exited"
    /\ HasReturnCode(rec) /\ rec.return_code[1] = p.returncode
    /\ rec.stdout = Stdout(p.command, p.env)
    /\ rec.stderr = Stderr(p.command, p.env)
    /\ rec.status = "completed" <=> p.returncode = 0

\* C38: in every reachable state of the process registry the status, the
\* return code and the captured output stored under an identifier are those
\* of the process handle stored under that identifier, and a monitor thread
\* writes only into the record that holds its own process, also when start
\* is called again with an identifier that is already registered
C38_OwnProcess ==
    /\ [](\A id \in DOMAIN running_processes :
             LET rec == running_processes[id]
                 p == os_procs[rec.process]
             IN  /\ rec.status \in {"completed", "failed"} => ResultOf(rec, p)
                 /\ rec.status = "running" => NothingStored(rec))
    /\ [][ \A h \in DOMAIN monitors :
              monitor_process(h) =>
                 running_processes[monitors[h].process_id].process = h ]_vars

\* C39: whenever the state of a session is DISCONNECTED, reached by close(),
\* by the idle timeout or by the exit of the process, the process of the
\* session is not running, or close() has sent it terminate and then kill
C39_DisconnectedStopped ==
    \A o \in DOMAIN session_objects :
        LET self == session_objects[o]
        IN  (self.state = "DISCONNECTED" /\ self.process # 0) =>
               \/ ~Running(session_procs, self.process)
               \/ session_procs[self.process].signal = "KILL"

\* the number of lines the process of session o has written to its stdout
Written(o) ==
    IF o \in DOMAIN session_objects /\ session_objects[o].process # 0
    THEN LET p == session_procs[session_objects[o].process]
         IN  Len(p.program.out) - Len(p.pending_out)
    ELSE 0

\* the number of stdout lines recorded in the transcript of session o
Recorded(o) ==
    IF o \in DOMAIN session_objects
    THEN Len(LinesRead(session_objects[o]))
    ELSE 0

\* the numbers of the lines a program writes to its stdout
LineNumbers == 1..Max({ Len(program.out) : program \in SessionPrograms })

\* C40: every line the process of a session writes to stdout is eventually
\* read by the reader, which puts it on the stdout queue and records it in
\* the transcript, also when the process exits right after writing it
C40_NoLineLost ==
    \A o \in 1..MaxSessions : \A n \in LineNumbers :
        (Written(o) >= n) ~> (Recorded(o) >= n)

====
